---- MODULE Spec2Model ----
(***************************************************************************)
(* Coordination-and-settlement engine of gopher-uptime:                    *)
(*   - the hub (cmd/hub/main.go): connection registry, callback table,     *)
(*     dispatch loop, per-connection receive loops, probe handler;         *)
(*   - RequestPayout (internal/handlers/user/handler.go);                  *)
(*   - the payout worker (services.PayoutWorker, in models/models.go);     *)
(*   - DeleteWebsite (internal/handlers/website/handler.go);               *)
(*   - the validator client (second program of cmd/api/main.go).           *)
(* The relational store, the broker and the external ledger are modelled   *)
(* by the contract the code consumes: every call the code makes on them    *)
(* may succeed or return an error.                                         *)
(***************************************************************************)
EXTENDS Integers, Sequences, FiniteSets, Bags, TLC

\* ------------------------------------------------------------ identities
Conns == {"c1", "c2"}          \* websocket connections accepted by the hub
Keys == {"k1", "k2"}           \* validator public keys
Websites == {"w1"}             \* rows of Website with disabled = false
Callers == {"p1", "p2"}        \* concurrent HTTP requests to RequestPayout
Users == {"u1", "u2"}          \* authenticated users of the website API
Xs == {"x1", "x2"}             \* callback ids generated by validator clients
Agents == {"a1", "a2"}         \* validator client processes (cmd/api/main.go)
Statuses == {"Good", "Bad"}
None == "none"

COST_PER_VALIDATION == 100

\* ---------------------------------------------------------------- bounds
MaxCallbacks == 2              \* callback ids the dispatch loop may generate
MaxMsgs == 2                   \* payout messages that may be published
MaxFaults == 1                 \* store / broker calls that may return an error
MaxStops == 1                  \* times the worker process may stop mid-delivery

Ids == 1..Cardinality(Keys)    \* Validator.ID values (one row per public key)
CbIds == 1..MaxCallbacks
MsgIds == 1..MaxMsgs

VARIABLES
  \* Hub (cmd/hub/main.go)
  validators,    \* Hub.validators: validator id -> connection, None if absent
  callbacks,     \* Hub.callbacks: callback id -> closure data, NoClosure if absent
  nextCb,        \* number of callback ids generated so far (uuid.New)
  hpc,           \* per connection: position of handleWebSocket's loop
  dwork,         \* dispatch loop: (website, validator) pairs still to send
  outbox,        \* frames the hub wrote on its connections (WriteJSON)
  signups,       \* per connection: outcome of the last handshake handled
  held,          \* per hub task: the critical section of Hub.mu or
                 \* Hub.callbackMu it waits for or is inside
  \* Store (internal/models/models.go)
  dbValidator,   \* Validator rows, index = id
  ticks,         \* bag of WebsiteTick rows
  payoutTx,      \* PayoutTransaction rows, index = creation order
  rowLock,       \* SELECT ... FOR UPDATE holder of each Validator row
  disabled,      \* Website rows: website id -> value of column disabled
  \* Broker
  queue,         \* payout_queue, head first
  nextMsg,       \* number of messages published so far
  \* RequestPayout requests
  ppc,
  \* PayoutWorker
  wpc,
  \* Validator clients (cmd/api/main.go)
  agent,         \* per client: position, callbacks map, validatorID
  wire,          \* frames the clients wrote on their hub connection
  \* environment
  faults,        \* errors injected so far
  stops,         \* worker stops so far
  \* history (not read by any action guard)
  invoked,       \* callback id -> number of times its handler ran
  transfers,     \* message id -> number of transfers submitted for it
  hist           \* per validator: totals credited and published; the
                 \* messages the worker asked to have delivered again and
                 \* those whose amount it re-credited; per validator: the
                 \* total published by requests that were rolled back

hubVars ==
  <<validators, callbacks, nextCb, hpc, dwork, outbox, signups, held>>
dbVars == <<dbValidator, ticks, payoutTx, rowLock, disabled>>
agentVars == <<agent, wire>>
payVars == <<queue, nextMsg, ppc>>
workVars == <<wpc, transfers, stops>>
vars ==
  <<hubVars, dbVars, payVars, workVars, agentVars, faults, invoked, hist>>

\* ---------------------------------------------------------------- store
\* A Validator row with this id exists.
RowExists(vid) == vid \in 1..Len(dbValidator)

\* models.Validator: PendingPayouts has default 0.
NewValidatorRow(pk) == [publicKey |-> pk, pending |-> 0]

\* Faulty variant of TickInsertOk: the foreign key is not enforced.
TickInsertNoForeignKey(vid) == TRUE

\* WebsiteTick.ValidatorID is a foreign key into Validator: an insert whose
\* validator id matches no row is refused by the store.
TickInsertOk(vid) == RowExists(vid)

\* AddPending with the sign reversed (used by WorkerRefundDebit).
SubtractPending(rows, vid, amount) ==
  [i \in 1..Len(rows) |->
     IF i = vid THEN [rows[i] EXCEPT !.pending = @ - amount] ELSE rows[i]]

\* UPDATE Validator SET pending_payouts = pending_payouts + amount WHERE id = vid
\* (no row matched: nothing changes and no error is returned).
AddPending(rows, vid, amount) ==
  [i \in 1..Len(rows) |->
     IF i = vid THEN [rows[i] EXCEPT !.pending = @ + amount] ELSE rows[i]]

\* Number of WebsiteTick rows of a validator.
TickCount(vid) ==
  LET S == {t \in BagToSet(ticks) : t.validator = vid}
      RECURSIVE Sum(_)
      Sum(T) == IF T = {} THEN 0
                ELSE LET t == CHOOSE x \in T : TRUE
                     IN CopiesIn(t, ticks) + Sum(T \ {t})
  IN Sum(S)

\* An injected error is still allowed.
MayFail == faults < MaxFaults

\* ------------------------------------------------------------------ hub
\* No closure: the value of an absent entry of Hub.callbacks.
NoClosure == [website |-> None, publicKey |-> None]

\* State of a receive loop blocked in conn.ReadMessage; skipped says that
\* the frame it read last was dropped by handleWebSocket itself.
Reading ==
  [pc |-> "read", cb |-> 0, closure |-> NoClosure, vid |-> 0, status |-> None,
   pk |-> None, x |-> None, sigOk |-> TRUE, skipped |-> FALSE]

\* Faulty variant of EntriesOf: the connection of an entry is not compared.
EntriesOfAny(c) == {v \in Ids : validators[v] # None}

\* removeValidator: the ids whose registry entry refers to connection c.
EntriesOf(c) == {v \in Ids : validators[v] = c}

\* First(&validator) by public key: the ids of the rows holding pk.
FindByKey(pk) == {v \in 1..Len(dbValidator) : dbValidator[v].publicKey = pk}

\* h.validators[validator.ID] = &ValidatorConnection{...}
Register(vid, c) == [validators EXCEPT ![vid] = c]

\* handleWebSocket: upgrader.Upgrade succeeded, the receive loop starts.
HubAccept(c) ==
  /\ hpc[c].pc = "new"
  /\ hpc' = [hpc EXCEPT ![c] = Reading]
  /\ UNCHANGED <<validators, callbacks, nextCb, dwork, dbVars, held, payVars,
                 workVars, faults, invoked, hist, outbox, signups, agentVars>>

\* removeValidator: the entry of id v is deleted and the loop over the
\* registry ends (break); the closed loop keeps v as the id it removed.
RemoveEntry(c, v) ==
  /\ validators' = [validators EXCEPT ![v] = None]
  /\ hpc' = [hpc EXCEPT ![c] = [Reading EXCEPT !.pc = "closed", !.vid = v]]

\* Faulty variant of RemoveValidator: the handlers are dropped with the
\* connection.
RemoveValidatorAndHandlers(c) ==
  /\ IF EntriesOf(c) = {}
     THEN /\ UNCHANGED validators
          /\ hpc' = [hpc EXCEPT ![c] = [Reading EXCEPT !.pc = "closed"]]
     ELSE \E v \in EntriesOf(c) : RemoveEntry(c, v)
  /\ callbacks' = [cb \in CbIds |-> NoClosure]

\* removeValidator: the first registry entry met that refers to c is
\* deleted (map order is arbitrary); Hub.callbacks is not touched.
RemoveValidator(c) ==
  /\ IF EntriesOf(c) = {}
     THEN /\ UNCHANGED validators
          /\ hpc' = [hpc EXCEPT ![c] = [Reading EXCEPT !.pc = "closed"]]
     ELSE \E v \in EntriesOf(c) : RemoveEntry(c, v)
  /\ UNCHANGED callbacks

\* handleWebSocket: ReadMessage returns an error; removeValidator runs and
\* the loop ends.
HubReadError(c) ==
  /\ hpc[c].pc = "read"
  /\ RemoveValidator(c)
  /\ UNCHANGED <<nextCb, dwork, dbVars, held, payVars, workVars, faults,
                 invoked, hist, outbox, signups, agentVars>>

\* Faulty variant of HubReadIgnored: the loop treats the frame as a read
\* failure.
HubReadIgnoredEndsLoop(c) ==
  /\ hpc[c].pc = "read"
  /\ validators' = [v \in Ids |->
                      IF validators[v] = c THEN None ELSE validators[v]]
  /\ hpc' = [hpc EXCEPT ![c] = [Reading EXCEPT !.pc = "closed",
                                               !.skipped = TRUE]]
  /\ UNCHANGED <<callbacks, nextCb, dwork, dbVars, held, payVars, workVars, faults,
                 invoked, hist, outbox, signups, agentVars>>

\* handleWebSocket: a frame that does not unmarshal, or whose type is neither
\* "signup" nor "validate": the loop continues.
HubReadIgnored(c) ==
  /\ hpc[c].pc = "read"
  /\ hpc' = [hpc EXCEPT ![c] = [Reading EXCEPT !.skipped = TRUE]]
  /\ UNCHANGED <<validators, callbacks, nextCb, dwork, dbVars, held, payVars,
                 workVars, faults, invoked, hist, outbox, signups, agentVars>>

\* A frame the hub writes: the signup reply {validatorId, callbackId} or
\* the probe task {callbackId, websiteId} (fields of the other kind empty).
SignupReply(c, vid, x) ==
  [type |-> "signup", conn |-> c, vid |-> vid, x |-> x, cb |-> 0,
   website |-> None, after |-> {}]

\* What a peer receives when two goroutines were inside WriteJSON on its
\* connection at once: bytes that are no frame.
Garbled(c) ==
  [type |-> "garbled", conn |-> c, vid |-> 0, x |-> None, cb |-> 0,
   website |-> None, after |-> {}]

\* The dispatch loop is inside WriteJSON on connection c (the handler of
\* the pair is registered, the task not yet written).
DispatchWriting(c) == \E p \in dwork : p.cb # 0 /\ p.conn = c

\* Outcome of a handshake: the frame's public key, callback id and whether
\* its signedMessage verifies against the key; vid the identity registered
\* for the connection (0: none), replied whether a reply was written.
SignupOutcome(pk, x, sigOk, vid, replied) ==
  [pk |-> pk, x |-> x, sigOk |-> sigOk, vid |-> vid, replied |-> replied]

NoSignup == SignupOutcome(None, None, TRUE, 0, FALSE)

\* The receive loop of a connection inside conn.WriteJSON(response).
Replying(vid, x) == [Reading EXCEPT !.pc = "reply", !.vid = vid, !.x = x]

\* handleSignup, from "Store validator connection" on: the registry entry
\* of the identity is set to this connection (under h.mu.Lock) and the
\* reply is handed to conn.WriteJSON, which has not returned yet.
SignupRegister(c, pk, x, sigOk, vid) ==
  /\ validators' = Register(vid, c)
  /\ outbox' = outbox \cup {SignupReply(c, vid, x)}
  /\ signups' = [signups EXCEPT ![c] = SignupOutcome(pk, x, sigOk, vid, TRUE)]
  /\ hpc' = [hpc EXCEPT ![c] = Replying(vid, x)]

\* handleSignup returns early: nothing registered, nothing written.
SignupDropped(c, pk, x, sigOk) ==
  /\ signups' = [signups EXCEPT ![c] = SignupOutcome(pk, x, sigOk, 0, FALSE)]
  /\ hpc' = [hpc EXCEPT ![c] = Reading]
  /\ UNCHANGED <<validators, outbox>>

\* handleSignup up to the lookup by public key: a store error returns; a row
\* found is registered and answered; no row found goes on to Create. The
\* signedMessage of the frame is not looked at (TODO in the code).
HubReadSignup(c, pk, x, sigOk) ==
  /\ hpc[c].pc = "read"
  /\ \/ /\ MayFail
        /\ faults' = faults + 1
        /\ SignupDropped(c, pk, x, sigOk)
     \/ /\ FindByKey(pk) # {}
        /\ \E v \in FindByKey(pk) : SignupRegister(c, pk, x, sigOk, v)
        /\ UNCHANGED faults
     \/ /\ FindByKey(pk) = {}
        /\ hpc' = [hpc EXCEPT ![c] = [Reading EXCEPT !.pc = "create", !.pk = pk,
                                                     !.x = x, !.sigOk = sigOk]]
        /\ UNCHANGED <<validators, outbox, signups, faults>>
  /\ UNCHANGED <<callbacks, nextCb, dwork, dbVars, held, payVars, workVars,
                 agentVars, invoked, hist>>

\* Faulty variant of CreateOk: public_key carries no unique index.
CreateWithoutUniqueIndex(pk) == TRUE

\* Validator.PublicKey has a unique index: an insert is accepted only when
\* no row holds the key.
CreateOk(pk) == FindByKey(pk) = {}

\* handleSignup: h.db.Create(&validator); public_key carries a unique index,
\* so the insert fails when a row with this key exists by now, and the
\* handler returns. On success the connection is registered and the reply
\* written.
HubSignupCreate(c) ==
  LET f == hpc[c]
  IN /\ f.pc = "create"
     /\ \/ /\ MayFail
           /\ faults' = faults + 1
           /\ SignupDropped(c, f.pk, f.x, f.sigOk)
           /\ UNCHANGED dbValidator
        \/ /\ ~CreateOk(f.pk)
           /\ SignupDropped(c, f.pk, f.x, f.sigOk)
           /\ UNCHANGED <<dbValidator, faults>>
        \/ /\ CreateOk(f.pk)
           /\ dbValidator' = Append(dbValidator, NewValidatorRow(f.pk))
           /\ SignupRegister(c, f.pk, f.x, f.sigOk, Len(dbValidator) + 1)
           /\ UNCHANGED faults
     /\ UNCHANGED <<callbacks, nextCb, dwork, ticks, payoutTx, rowLock,
                    disabled, held, payVars, workVars, agentVars, invoked, hist>>

\* handleSignup: conn.WriteJSON(response) returns and so does the handler;
\* the loop reads the next frame. No lock orders this write with the
\* dispatch loop's: when both were writing on the connection, the peer
\* receives the frames intact or bytes that are no frame.
HubSignupWritten(c) ==
  /\ hpc[c].pc = "reply"
  /\ hpc' = [hpc EXCEPT ![c] = Reading]
  /\ \/ UNCHANGED outbox
     \/ /\ DispatchWriting(c)
        /\ outbox' = outbox \cup {Garbled(c)}
  /\ UNCHANGED <<validators, callbacks, nextCb, dwork, dbVars, held, payVars,
                 workVars, faults, invoked, hist, signups, agentVars>>

\* handleValidate, first half: the lookup under callbackMu.RLock. A callback
\* found is about to be called; none found: the frame is dropped. sigOk
\* says whether the frame's signedMessage verifies against the public key
\* of the closure; neither handleValidate nor the closure looks at it.
HubReadValidate(c, cb, vid, st, sigOk) ==
  /\ hpc[c].pc = "read"
  /\ IF callbacks[cb] # NoClosure
     THEN hpc' = [hpc EXCEPT ![c] =
                    [Reading EXCEPT !.pc = "callback", !.cb = cb,
                                    !.closure = callbacks[cb], !.vid = vid,
                                    !.status = st, !.sigOk = sigOk]]
     ELSE hpc' = [hpc EXCEPT ![c] = Reading]
  /\ UNCHANGED <<validators, callbacks, nextCb, dwork, dbVars, held, payVars,
                 workVars, faults, invoked, hist, outbox, signups, agentVars>>

\* The WebsiteTick row the closure of createValidateCallback builds: the
\* website of the closure, validator id and status of the reply.
TickOf(closure, vid, st) ==
  [website |-> closure.website, validator |-> vid, status |-> st]

\* Faulty variant of RowFree: the update does not wait for the row lock of
\* a RequestPayout transaction.
RowFreeAlways(vid) == TRUE

\* The UPDATE of a Validator row waits while another transaction holds the
\* row (SELECT ... FOR UPDATE of RequestPayout) and is applied to the row
\* as that transaction left it.
RowFree(vid) == RowExists(vid) => rowLock[vid] = None

\* Faulty variant of CallbackCommit: the tick is committed without the update of
\* pending_payouts.
CallbackCommitTickOnly(c) ==
  LET f == hpc[c]
  IN /\ TickInsertOk(f.vid)
     /\ ticks' = ticks (+) SetToBag({TickOf(f.closure, f.vid, f.status)})
     /\ UNCHANGED <<dbValidator, hist, faults>>

\* createValidateCallback's transaction, committed: the tick is inserted and
\* the validator of the reply is credited COST_PER_VALIDATION.
CallbackCommit(c) ==
  LET f == hpc[c]
  IN /\ TickInsertOk(f.vid)
     /\ RowFree(f.vid)
     /\ ticks' = ticks (+) SetToBag({TickOf(f.closure, f.vid, f.status)})
     /\ dbValidator' = AddPending(dbValidator, f.vid, COST_PER_VALIDATION)
     /\ hist' = IF RowExists(f.vid)
                THEN [hist EXCEPT !.credited[f.vid] = @ + COST_PER_VALIDATION]
                ELSE hist
     /\ UNCHANGED faults

\* createValidateCallback's transaction, rolled back: the insert is refused
\* (foreign key), or the insert, the update or the commit returns an error.
CallbackRollback(c) ==
  /\ \/ /\ ~TickInsertOk(hpc[c].vid)
        /\ UNCHANGED faults
     \/ /\ MayFail
        /\ faults' = faults + 1
  /\ UNCHANGED <<ticks, dbValidator, hist>>

\* handleValidate, callback(msg): the closure found by the lookup runs,
\* whether or not its table entry is still there.
HubRunCallback(c) ==
  /\ hpc[c].pc = "callback"
  /\ \/ CallbackCommit(c)
     \/ CallbackRollback(c)
  /\ invoked' = [invoked EXCEPT ![hpc[c].cb] = @ + 1]
  /\ hpc' = [hpc EXCEPT ![c] = [Reading EXCEPT !.pc = "delete", !.cb = hpc[c].cb]]
  /\ UNCHANGED <<validators, callbacks, nextCb, dwork, payoutTx, rowLock,
                 held, payVars, workVars, outbox, signups, disabled, agentVars>>

\* handleValidate, second half: delete(h.callbacks, id) under callbackMu.Lock.
HubDeleteCallback(c) ==
  /\ hpc[c].pc = "delete"
  /\ callbacks' = [callbacks EXCEPT ![hpc[c].cb] = NoClosure]
  /\ hpc' = [hpc EXCEPT ![c] = Reading]
  /\ UNCHANGED <<validators, nextCb, dwork, dbVars, held, payVars, workVars,
                 faults, invoked, hist, outbox, signups, agentVars>>

\* startMonitoring, one tick: the snapshot of the connected validators.
Snapshot == {v \in Ids : validators[v] # None}

\* Faulty variant of ActiveWebsites: the disabled column is not filtered.
AllWebsites == DOMAIN disabled

\* startMonitoring: Where("disabled = ?", false).Find(&websites).
ActiveWebsites == {w \in DOMAIN disabled : ~disabled[w]}

\* Faulty variant of Pairs: the loop over the websites stops after the first.
PairsOfOneWebsite(ws, vs) ==
  {[website |-> w, vid |-> v, conn |-> validators[v],
    publicKey |-> dbValidator[v].publicKey, cb |-> 0] :
     w \in (IF ws = {} THEN {} ELSE {CHOOSE w \in ws : TRUE}), v \in vs}

\* startMonitoring, one tick: the (website, validator) pairs of the cycle;
\* each validator with the connection and the public key its registry
\* entry holds; cb is the callback id of the pair once generated.
Pairs(ws, vs) ==
  {[website |-> w, vid |-> v, conn |-> validators[v],
    publicKey |-> dbValidator[v].publicKey, cb |-> 0] : w \in ws, v \in vs}

\* startMonitoring: the ticker fires. A store error on the websites, no
\* active website or no connected validator: the cycle does nothing.
DispatchTick ==
  /\ dwork = {}
  /\ nextCb < MaxCallbacks
  /\ \/ /\ MayFail
        /\ faults' = faults + 1
        /\ UNCHANGED dwork
     \/ /\ dwork' = Pairs(ActiveWebsites, Snapshot)
        /\ UNCHANGED faults
  /\ UNCHANGED <<validators, callbacks, nextCb, hpc, outbox, signups, dbVars,
                 held, payVars, workVars, agentVars, invoked, hist>>

\* startMonitoring, loop body for one pair, first half: a fresh callback id
\* and the closure registered under it (callbackMu.Lock).
DispatchPair ==
  /\ nextCb < MaxCallbacks
  /\ \A q \in dwork : q.cb = 0
  /\ \E p \in dwork :
       /\ callbacks' = [callbacks EXCEPT ![nextCb + 1] =
                          [website |-> p.website, publicKey |-> p.publicKey]]
       /\ dwork' = (dwork \ {p}) \cup {[p EXCEPT !.cb = nextCb + 1]}
  /\ nextCb' = nextCb + 1
  /\ UNCHANGED <<validators, hpc, outbox, signups, dbVars, held, payVars, workVars,
                 agentVars, faults, invoked, hist>>

\* The probe task {url, callbackId, websiteId} written to a connection.
\* The handshake replies (their callback ids) whose WriteJSON on connection
\* c has returned: a frame written now follows them on the connection.
WrittenReplies(c) ==
  {r.x : r \in {q \in outbox :
                  /\ q.type = "signup"
                  /\ q.conn = c
                  /\ ~(hpc[c].pc = "reply" /\ hpc[c].x = q.x)}}

\* The task frame; after is the set of handshake replies written before it
\* (history only).
ProbeTask(p) ==
  [type |-> "validate", conn |-> p.conn, vid |-> 0, x |-> None, cb |-> p.cb,
   website |-> p.website, after |-> WrittenReplies(p.conn)]

\* startMonitoring, loop body for one pair, second half: the task is
\* written to the connection of the snapshot; the write fails on a
\* connection the hub has closed, which is only logged. The write is made
\* under no lock: while the receive loop of the connection is writing a
\* handshake reply, the peer receives the task intact or bytes that are no
\* frame.
DispatchSend ==
  /\ \E p \in dwork :
       /\ p.cb # 0
       /\ \/ outbox' = IF hpc[p.conn].pc = "closed" THEN outbox
                       ELSE outbox \cup {ProbeTask(p)}
          \/ /\ hpc[p.conn].pc = "reply"
             /\ outbox' = outbox \cup {Garbled(p.conn)}
       /\ dwork' = dwork \ {p}
  /\ UNCHANGED <<validators, callbacks, nextCb, hpc, signups, dbVars, held, payVars,
                 workVars, agentVars, faults, invoked, hist>>

\* ------------------------------------------------------------ hub locks
\* The hub's goroutines: one receive loop per connection (it also runs
\* removeValidator) and the dispatch loop of startMonitoring.
Tasks == Conns \cup {"dispatch"}

\* The critical sections of the hub, by the statement they guard.
LoopSections == {"register", "remove", "lookup", "delete"}
DispatchSections == {"snapshot", "callback"}
SectionsOf(t) == IF t = "dispatch" THEN DispatchSections ELSE LoopSections

\* The table a section works on, and whether it changes it: handleSignup
\* stores an entry of h.validators, removeValidator deletes one, the
\* snapshot of startMonitoring reads them; startMonitoring stores a handler
\* in h.callbacks, handleValidate looks one up, then deletes it.
TableOf(n) ==
  IF n \in {"register", "remove", "snapshot"} THEN "validators"
  ELSE "callbacks"

Mutates(n) == n \in {"register", "remove", "callback", "delete"}

\* The mutex of a section: h.mu for h.validators, h.callbackMu for
\* h.callbacks.
MutexOf(n) == IF TableOf(n) = "validators" THEN "mu" ELSE "callbackMu"

\* Faulty variant of LockMode: every section takes the read lock.
LockModeShared(n) == "RLock"

\* How a section takes its mutex: Lock in handleSignup, removeValidator,
\* startMonitoring's registration and handleValidate's delete; RLock in
\* startMonitoring's snapshot and handleValidate's lookup.
LockMode(n) == IF n \in {"snapshot", "lookup"} THEN "RLock" ELSE "Lock"

\* A task outside every critical section.
Outside == [section |-> None, phase |-> "out"]

\* sync.RWMutex: Lock returns while no other task holds the mutex, RLock
\* while no other task holds it by Lock.
Grantable(t) ==
  \A u \in Tasks \ {t} :
    (held[u].phase = "in" /\ MutexOf(held[u].section) = MutexOf(held[t].section))
      => (LockMode(held[t].section) = "RLock" /\
          LockMode(held[u].section) = "RLock")

\* A task reaches the Lock or RLock call of one of its sections.
LockCall(t, n) ==
  /\ held[t] = Outside
  /\ n \in SectionsOf(t)
  /\ held' = [held EXCEPT ![t] = [section |-> n, phase |-> "wait"]]
  /\ UNCHANGED <<validators, callbacks, nextCb, hpc, dwork, outbox, signups,
                 dbVars, payVars, workVars, agentVars, faults, invoked, hist>>

\* The call returns: the task is inside the section and works on the table.
LockReturn(t) ==
  /\ held[t].phase = "wait"
  /\ Grantable(t)
  /\ held' = [held EXCEPT ![t].phase = "in"]
  /\ UNCHANGED <<validators, callbacks, nextCb, hpc, dwork, outbox, signups,
                 dbVars, payVars, workVars, agentVars, faults, invoked, hist>>

\* Unlock or RUnlock at the end of the section.
UnlockCall(t) ==
  /\ held[t].phase = "in"
  /\ held' = [held EXCEPT ![t] = Outside]
  /\ UNCHANGED <<validators, callbacks, nextCb, hpc, dwork, outbox, signups,
                 dbVars, payVars, workVars, agentVars, faults, invoked, hist>>

\* ------------------------------------------------------- website API
\* The user owning a website row (Website.UserID).
Owner(w) == "u1"

\* DeleteWebsite: Update("disabled", true) on the row of this id and user.
\* A store error answers 500, no row matched answers 404, and nothing
\* changes; otherwise the row is disabled.
DeleteWebsite(u, w) ==
  /\ \/ /\ MayFail
        /\ faults' = faults + 1
        /\ UNCHANGED disabled
     \/ /\ ~(w \in DOMAIN disabled /\ Owner(w) = u)
        /\ UNCHANGED <<disabled, faults>>
     \/ /\ w \in DOMAIN disabled
        /\ Owner(w) = u
        /\ disabled' = [disabled EXCEPT ![w] = TRUE]
        /\ UNCHANGED faults
  /\ UNCHANGED <<hubVars, dbValidator, ticks, payoutTx, rowLock, payVars,
                 workVars, agentVars, invoked, hist>>

\* -------------------------------------------------------- RequestPayout
\* A request slot with no request in progress: vid and resp are the
\* validator id and the response of the last request that ended before the
\* publish.
NoRequest(vid, resp) ==
  [pc |-> "idle", vid |-> vid, amount |-> 0, resp |-> resp, published |-> 0,
   committed |-> FALSE]

\* Faulty variant of PayoutCleared: the comparison is strict.
PayoutClearedStrict(pending) == pending < 0

\* RequestPayout: if validator.PendingPayouts <= 0 { ... "cleared" ... }
PayoutCleared(pending) == pending <= 0

\* PayoutRequest{ValidatorID, Amount, PublicKey}; id is the message's
\* identity on the broker (history only).
PayoutMessage(vid, amount, id) ==
  [validator |-> vid, amount |-> amount,
   publicKey |-> dbValidator[vid].publicKey, id |-> id, json |-> TRUE]

\* Requests that passed the balance check and have not published yet.
AboutToPublish == {q \in Callers : ppc[q].pc = "publish"}

\* RequestPayout up to the balance check: Begin, SELECT ... FOR UPDATE on
\* the validator row (waits while another transaction holds the row), then
\* 404 / 500 / "cleared" with a rollback, or on to the publish.
PayoutBegin(p, vid) ==
  /\ ppc[p].pc = "idle"
  /\ \/ /\ MayFail
        /\ faults' = faults + 1
        /\ ppc' = [ppc EXCEPT ![p] = NoRequest(vid, "error")]
        /\ UNCHANGED rowLock
     \/ /\ ~RowExists(vid)
        /\ ppc' = [ppc EXCEPT ![p] = NoRequest(vid, "notfound")]
        /\ UNCHANGED <<rowLock, faults>>
     \/ /\ RowExists(vid)
        /\ rowLock[vid] = None
        /\ PayoutCleared(dbValidator[vid].pending)
        /\ ppc' = [ppc EXCEPT ![p] = NoRequest(vid, "cleared")]
        /\ UNCHANGED <<rowLock, faults>>
     \/ /\ RowExists(vid)
        /\ rowLock[vid] = None
        /\ ~PayoutCleared(dbValidator[vid].pending)
        /\ nextMsg + Cardinality(AboutToPublish) < MaxMsgs
        /\ rowLock' = [rowLock EXCEPT ![vid] = p]
        /\ ppc' = [ppc EXCEPT ![p] =
                      [pc |-> "publish", vid |-> vid,
                       amount |-> dbValidator[vid].pending, resp |-> None,
                       published |-> 0, committed |-> FALSE]]
        /\ UNCHANGED faults
  /\ UNCHANGED <<hubVars, dbValidator, ticks, payoutTx, queue, nextMsg,
                 workVars, invoked, hist, disabled, agentVars>>

\* tx.Rollback() and the error response: the row lock is released.
PayoutAbort(p, resp) ==
  /\ rowLock' = [rowLock EXCEPT ![ppc[p].vid] = None]
  /\ ppc' = [ppc EXCEPT ![p].pc = "idle", ![p].resp = resp]

\* The history after request p, which has published its message, is rolled
\* back: the message stays on the queue.
Orphaned(p) == [hist EXCEPT !.orphaned[ppc[p].vid] = @ + ppc[p].amount]

\* RequestPayout: h.rabbitMQ.Publish; an error rolls back and answers 500.
PayoutPublish(p) ==
  /\ ppc[p].pc = "publish"
  /\ \/ /\ MayFail
        /\ faults' = faults + 1
        /\ PayoutAbort(p, "error")
        /\ UNCHANGED <<queue, nextMsg, hist>>
     \/ /\ queue' = Append(queue,
                      PayoutMessage(ppc[p].vid, ppc[p].amount, nextMsg + 1))
        /\ nextMsg' = nextMsg + 1
        /\ hist' = [hist EXCEPT !.published[ppc[p].vid] = @ + ppc[p].amount]
        /\ ppc' = [ppc EXCEPT ![p].pc = "update", ![p].published = nextMsg + 1]
        /\ UNCHANGED <<rowLock, faults>>
  /\ UNCHANGED <<hubVars, dbValidator, ticks, payoutTx, workVars, invoked,
                 disabled, agentVars>>

\* RequestPayout: tx.Model(&validator).Update("pending_payouts", 0); an
\* error rolls back and answers 500.
PayoutUpdate(p) ==
  /\ ppc[p].pc = "update"
  /\ \/ /\ MayFail
        /\ faults' = faults + 1
        /\ PayoutAbort(p, "error")
        /\ hist' = Orphaned(p)
     \/ /\ ppc' = [ppc EXCEPT ![p].pc = "commit"]
        /\ UNCHANGED <<rowLock, faults, hist>>
  /\ UNCHANGED <<hubVars, dbValidator, ticks, payoutTx, queue, nextMsg,
                 workVars, invoked, disabled, agentVars>>

\* The balance after the committed reset.
ResetPending(rows, vid) ==
  [i \in 1..Len(rows) |->
     IF i = vid THEN [rows[i] EXCEPT !.pending = 0] ELSE rows[i]]

\* RequestPayout: tx.Commit(); on success the reset becomes visible and the
\* answer is "queued"; on error nothing was written and the answer is 500
\* (resp "error" stands for every 500 answer, "notfound" for the 404).
PayoutCommit(p) ==
  /\ ppc[p].pc = "commit"
  /\ \/ /\ MayFail
        /\ faults' = faults + 1
        /\ PayoutAbort(p, "error")
        /\ hist' = Orphaned(p)
        /\ UNCHANGED dbValidator
     \/ /\ dbValidator' = ResetPending(dbValidator, ppc[p].vid)
        /\ rowLock' = [rowLock EXCEPT ![ppc[p].vid] = None]
        /\ ppc' = [ppc EXCEPT ![p].pc = "idle", ![p].resp = "queued",
                               ![p].committed = TRUE]
        /\ UNCHANGED <<faults, hist>>
  /\ UNCHANGED <<hubVars, ticks, payoutTx, queue, nextMsg, workVars, invoked,
                 disabled, agentVars>>

\* --------------------------------------------------------- PayoutWorker
\* The worker waiting in "for d := range msgs". During a delivery: msg the
\* message, rec the PayoutTransaction created, sig the signature returned,
\* chain what the external ledger reported for it, refunded the amount this
\* delivery re-credited (chain and refunded are history only).
NoMsg ==
  [validator |-> 0, amount |-> 0, publicKey |-> None, id |-> 0, json |-> TRUE]

\* A body on the queue that json.Unmarshal does not accept as a
\* PayoutRequest.
BadPayload == [NoMsg EXCEPT !.json = FALSE]

\* Another publisher of the broker puts such a body on payout_queue (one at
\* a time is enough).
PublishMalformed ==
  /\ wpc.msg # BadPayload
  /\ \A i \in 1..Len(queue) : queue[i] # BadPayload
  /\ queue' = Append(queue, BadPayload)
  /\ UNCHANGED <<hubVars, dbVars, nextMsg, ppc, workVars, faults, invoked,
                 hist, agentVars>>
Idle ==
  [pc |-> "idle", msg |-> NoMsg, rec |-> 0, sig |-> "", chain |-> "",
   refunded |-> 0]

\* models.PayoutTransaction as processPayoutRequest creates it; msg is the
\* delivery it was created for (history only).
NewPayoutTx(m) ==
  [validator |-> m.validator, amount |-> m.amount, status |-> "processing",
   sig |-> "", err |-> "", msg |-> m.id]

\* Faulty variant of UpdateTx: the statement has no condition on the
\* primary key and sets the status of every row.
UpdateTxAllRows(rows, id, status, sig, err) ==
  [i \in 1..Len(rows) |-> [rows[i] EXCEPT !.status = status]]

\* w.db.Model(txRecord).Updates(...): status, and the signature or the error
\* message when given.
UpdateTx(rows, id, status, sig, err) ==
  [i \in 1..Len(rows) |->
     IF i = id
     THEN [rows[i] EXCEPT !.status = status,
                          !.sig = IF sig = "" THEN @ ELSE sig,
                          !.err = IF err = "" THEN @ ELSE err]
     ELSE rows[i]]

\* A write whose error the worker does not look at: it is applied, or it
\* fails and the worker goes on all the same.
IgnoredWrite(applied) ==
  \/ /\ applied
     /\ UNCHANGED faults
  \/ /\ MayFail
     /\ faults' = faults + 1
     /\ UNCHANGED <<dbValidator, payoutTx, hist>>

\* Faulty variant of AfterUnmarshal: a body that does not unmarshal is
\* processed like a request.
AfterUnmarshalAny(m) == "create"

\* processPayoutRequest: json.Unmarshal of the body; on error
\* delivery.Nack(false, false) and return.
AfterUnmarshal(m) == IF m.json THEN "create" ELSE "nack"

\* Faulty variant of ConsumerReady: the next delivery is taken while the
\* previous one is still being processed.
ConsumerAlwaysReady == TRUE

\* Start: Qos(1, 0, false) with manual ack lets the broker send the next
\* message only after the previous one was acked or nacked, and the one
\* goroutine of the consumer calls processPayoutRequest and takes the next
\* delivery from the channel when the call has returned.
ConsumerReady == wpc.pc = "idle"

\* Start: the broker hands the head of the queue to the only consumer
\* (Qos 1, manual ack), whose loop calls processPayoutRequest with it.
WorkerDeliver ==
  /\ ConsumerReady
  /\ queue # <<>>
  /\ wpc' = [Idle EXCEPT !.pc = AfterUnmarshal(Head(queue)),
                         !.msg = Head(queue)]
  /\ queue' = Tail(queue)
  /\ UNCHANGED <<hubVars, dbVars, nextMsg, ppc, transfers, stops, faults,
                 invoked, hist, agentVars>>

\* processPayoutRequest: w.db.Create(txRecord); on error Nack with requeue.
WorkerCreate ==
  /\ wpc.pc = "create"
  /\ \/ /\ MayFail
        /\ faults' = faults + 1
        /\ queue' = <<wpc.msg>> \o queue
        /\ wpc' = Idle
        /\ hist' = [hist EXCEPT !.requeued = @ \cup {wpc.msg.id}]
        /\ UNCHANGED payoutTx
     \/ /\ payoutTx' = Append(payoutTx, NewPayoutTx(wpc.msg))
        /\ wpc' = [wpc EXCEPT !.pc = "transfer", !.rec = Len(payoutTx) + 1]
        /\ UNCHANGED <<queue, faults, hist>>
  /\ UNCHANGED <<hubVars, dbValidator, ticks, rowLock, nextMsg, ppc,
                 transfers, stops, invoked, disabled, agentVars>>

\* processPayoutRequest: executeSolanaTransfer returns a signature (the
\* transfer was submitted) or an error (nothing was submitted).
WorkerTransfer ==
  /\ wpc.pc = "transfer"
  /\ \/ /\ wpc' = [wpc EXCEPT !.pc = "confirm", !.sig = "sig"]
        /\ transfers' = [transfers EXCEPT ![wpc.msg.id] = @ + 1]
     \/ /\ wpc' = [wpc EXCEPT !.pc = "markFailed"]
        /\ UNCHANGED transfers
  /\ UNCHANGED <<hubVars, dbVars, payVars, stops, faults, invoked, hist,
                 agentVars>>

\* processPayoutRequest, submission failed: the record is set to failed
\* with the error message.
WorkerMarkFailed ==
  /\ wpc.pc = "markFailed"
  /\ IgnoredWrite(/\ payoutTx' = UpdateTx(payoutTx, wpc.rec, "failed", "",
                                          "transfer failed")
                  /\ UNCHANGED <<dbValidator, hist>>)
  /\ wpc' = [wpc EXCEPT !.pc = "refund"]
  /\ UNCHANGED <<hubVars, ticks, rowLock, payVars, transfers, stops, invoked,
                 disabled, agentVars>>

\* Faulty variant of WorkerRefund: the amount is subtracted from the
\* balance instead of added.
WorkerRefundDebit ==
  /\ wpc.pc = "refund"
  /\ rowLock[wpc.msg.validator] = None
  /\ dbValidator' = SubtractPending(dbValidator, wpc.msg.validator,
                                    wpc.msg.amount)
  /\ wpc' = [wpc EXCEPT !.pc = "nack"]
  /\ UNCHANGED <<hubVars, ticks, payoutTx, rowLock, disabled, payVars,
                 transfers, stops, agentVars, faults, invoked, hist>>

\* processPayoutRequest, submission failed: the refund of pending_payouts
\* (waits while a RequestPayout transaction holds the row).
WorkerRefund ==
  /\ wpc.pc = "refund"
  /\ rowLock[wpc.msg.validator] = None
  /\ IgnoredWrite(/\ dbValidator' = AddPending(dbValidator, wpc.msg.validator,
                                                wpc.msg.amount)
                  /\ hist' = [hist EXCEPT
                                !.credited[wpc.msg.validator] =
                                   @ + wpc.msg.amount,
                                !.compensated = @ \cup {wpc.msg.id}]
                  /\ UNCHANGED payoutTx)
  /\ wpc' = [wpc EXCEPT !.pc = "nack",
                        !.refunded = IF dbValidator' # dbValidator
                                     THEN wpc.msg.amount ELSE 0]
  /\ UNCHANGED <<hubVars, ticks, rowLock, payVars, transfers, stops, invoked,
                 disabled, agentVars>>

\* Faulty variant of WorkerConfirm: the polling loop has no timeout and the
\* status never becomes final.
WorkerConfirmForever ==
  /\ wpc.pc = "confirm"
  /\ UNCHANGED vars

\* processPayoutRequest: waitForConfirmation returns (true, nil) on
\* finality, (false, err) on a reported on-chain error (the transfer was
\* not applied) and (false, err) on the timeout (outcome unknown).
WorkerConfirm ==
  /\ wpc.pc = "confirm"
  /\ \/ wpc' = [wpc EXCEPT !.pc = "markCompleted", !.chain = "finalized"]
     \/ wpc' = [wpc EXCEPT !.pc = "markUnconfirmed", !.chain = "failed"]
     \/ wpc' = [wpc EXCEPT !.pc = "markUnconfirmed", !.chain = "timeout"]
  /\ UNCHANGED <<hubVars, dbVars, payVars, transfers, stops, faults, invoked,
                 hist, agentVars>>

\* processPayoutRequest, not confirmed: the record is set to failed, the
\* signature kept; the balance is not touched.
WorkerMarkUnconfirmed ==
  /\ wpc.pc = "markUnconfirmed"
  /\ IgnoredWrite(/\ payoutTx' = UpdateTx(payoutTx, wpc.rec, "failed", wpc.sig,
                                          "Transaction confirmation timeout")
                  /\ UNCHANGED <<dbValidator, hist>>)
  /\ wpc' = [wpc EXCEPT !.pc = "nack"]
  /\ UNCHANGED <<hubVars, ticks, rowLock, payVars, transfers, stops, invoked,
                 disabled, agentVars>>

\* processPayoutRequest, confirmed: the record is set to completed with
\* the signature.
WorkerMarkCompleted ==
  /\ wpc.pc = "markCompleted"
  /\ IgnoredWrite(/\ payoutTx' = UpdateTx(payoutTx, wpc.rec, "completed",
                                          wpc.sig, "")
                  /\ UNCHANGED <<dbValidator, hist>>)
  /\ wpc' = [wpc EXCEPT !.pc = "ack"]
  /\ UNCHANGED <<hubVars, ticks, rowLock, payVars, transfers, stops, invoked,
                 disabled, agentVars>>

\* delivery.Ack(false) / delivery.Nack(false, false): the message leaves
\* the queue for good.
WorkerDispose ==
  /\ wpc.pc \in {"ack", "nack"}
  /\ wpc' = Idle
  /\ UNCHANGED <<hubVars, dbVars, payVars, transfers, stops, faults, invoked,
                 hist, agentVars>>

\* The worker process stops while a delivery is unacknowledged; the broker
\* puts the message back and delivers it again to the next consumer.
WorkerStop ==
  /\ wpc.pc # "idle"
  /\ stops < MaxStops
  /\ stops' = stops + 1
  /\ queue' = <<wpc.msg>> \o queue
  /\ wpc' = Idle
  /\ UNCHANGED <<hubVars, dbVars, nextMsg, ppc, transfers, faults, invoked,
                 hist, agentVars>>

\* ------------------------------------------------------ validator client
\* A client process before Connect: no connection, empty callbacks map,
\* validatorID "" (0), connMu unlocked, no validateWebsite goroutine; got
\* are the frames its listener has read, listenEnded says that listen has
\* returned.
NotStarted ==
  [pc |-> "start", callbacks |-> {}, validatorID |-> 0, got |-> {},
   connMu |-> "free", probes |-> {}, listenEnded |-> FALSE]

\* The connection a client dials, the public key of its keypair and the
\* callback id its signup generates (uuid.New).
AgentConn(a) == IF a = "a1" THEN "c1" ELSE "c2"
AgentKey(a) == IF a = "a1" THEN "k1" ELSE "k2"
AgentX(a) == IF a = "a1" THEN "x1" ELSE "x2"

\* The signup frame of a client: {callbackId, ip, publicKey, signedMessage},
\* signed with the client's key (the fields of a validate frame empty).
SignupFrame(a) ==
  [type |-> "signup", conn |-> AgentConn(a), pk |-> AgentKey(a),
   x |-> AgentX(a), sigOk |-> TRUE, cb |-> 0, vid |-> 0, status |-> None,
   website |-> None]

\* Connect: Dial returns once the hub has upgraded the connection; the
\* listener goroutine is started, then signup is called.
AgentConnect(a) ==
  /\ agent[a].pc = "start"
  /\ hpc[AgentConn(a)].pc # "new"
  /\ agent' = [agent EXCEPT ![a].pc = "signup"]
  /\ UNCHANGED <<hubVars, dbVars, payVars, workVars, wire, faults, invoked,
                 hist>>

\* Faulty variant of AgentRegister: signup goes on to the send without
\* storing the callback.
AgentRegisterNothing(a) ==
  /\ agent[a].pc = "signup"
  /\ agent' = [agent EXCEPT ![a].pc = "send"]
  /\ UNCHANGED <<hubVars, dbVars, payVars, workVars, wire, faults, invoked,
                 hist>>

\* signup, first half: v.callbacks[callbackID] = func(...) {...}.
AgentRegister(a) ==
  /\ agent[a].pc = "signup"
  /\ agent' = [agent EXCEPT ![a].pc = "send",
                            ![a].callbacks = @ \cup {AgentX(a)}]
  /\ UNCHANGED <<hubVars, dbVars, payVars, workVars, wire, faults, invoked,
                 hist>>

\* signup: v.connMu.Lock() before the write of the signup frame.
AgentSendLock(a) ==
  /\ agent[a].pc = "send"
  /\ agent[a].connMu = "free"
  /\ agent' = [agent EXCEPT ![a].pc = "sending", ![a].connMu = "signup"]
  /\ UNCHANGED <<hubVars, dbVars, payVars, workVars, wire, faults, invoked,
                 hist>>

\* signup, the write: WriteJSON of the signup frame, then the deferred
\* connMu.Unlock; on a connection the hub has closed the write fails,
\* Connect returns the error and main ends the process (log.Fatal).
AgentSend(a) ==
  /\ agent[a].pc = "sending"
  /\ IF hpc[AgentConn(a)].pc = "closed"
     THEN /\ agent' = [agent EXCEPT ![a].pc = "failed", ![a].connMu = "free"]
          /\ UNCHANGED wire
     ELSE /\ agent' = [agent EXCEPT ![a].pc = "listen", ![a].connMu = "free"]
          /\ wire' = wire \cup {SignupFrame(a)}
  /\ UNCHANGED <<hubVars, dbVars, payVars, workVars, faults, invoked, hist>>

\* The listener goroutine of a client runs: Connect has started it and
\* ReadJSON has returned no error so far.
Listening(a) ==
  /\ agent[a].pc \notin {"start", "failed"}
  /\ ~agent[a].listenEnded

\* listen: ReadJSON returns an error on bytes that are no frame, and listen
\* returns; the connection is not closed and the process goes on.
AgentRecvGarbled(a) ==
  /\ Listening(a)
  /\ \E m \in outbox \ agent[a].got :
       /\ m.type = "garbled"
       /\ m.conn = AgentConn(a)
       /\ agent' = [agent EXCEPT ![a].got = @ \cup {m},
                                 ![a].listenEnded = TRUE]
  /\ UNCHANGED <<hubVars, dbVars, payVars, workVars, wire, faults, invoked,
                 hist>>

\* listen, case "signup": handleSignupResponse looks the callback id of the
\* reply up; a callback found sets validatorID and is deleted, none found:
\* the reply is dropped.
AgentRecvSignup(a) ==
  /\ Listening(a)
  /\ \E m \in outbox \ agent[a].got :
       /\ m.type = "signup"
       /\ m.conn = AgentConn(a)
       /\ agent' = [agent EXCEPT
                      ![a].got = @ \cup {m},
                      ![a].validatorID =
                         IF m.x \in agent[a].callbacks THEN m.vid ELSE @,
                      ![a].callbacks = @ \ {m.x}]
  /\ UNCHANGED <<hubVars, dbVars, payVars, workVars, wire, faults, invoked,
                 hist>>

\* A validateWebsite goroutine of a client: the task it was started with;
\* pc is "http" during the GET, then "lock" (blocked in connMu.Lock), then
\* "write" (inside WriteJSON); status and vid are those of the reply it
\* built after the GET (vid read from v.validatorID at that time); http is
\* how the GET ended (history only).
Probe(cb, website, pc, status, vid, http) ==
  [cb |-> cb, website |-> website, pc |-> pc, status |-> status, vid |-> vid,
   http |-> http]

\* How client.Get(data.URL) can end: status 200, another status, or an
\* error (the 10 s Timeout of the http.Client included).
HttpOutcomes == {"200", "other", "error"}

\* Faulty variant of StatusOf: every probe is reported Good.
StatusAlwaysGood(h) == "Good"

\* validateWebsite: status is "Good" when err == nil and StatusCode == 200,
\* "Bad" otherwise.
StatusOf(h) == IF h = "200" THEN "Good" ELSE "Bad"

\* The validate frame of a client: {callbackId, status, latency, websiteId,
\* validatorId, signedMessage}, signed with the client's key.
ValidateFrame(a, pr) ==
  [type |-> "validate", conn |-> AgentConn(a), pk |-> AgentKey(a),
   x |-> None, sigOk |-> TRUE, cb |-> pr.cb, vid |-> pr.vid,
   status |-> pr.status, website |-> pr.website]

\* Faulty variant of ListenerFree: the listener runs validateWebsite itself
\* and reads no frame before it has returned.
ListenerWaitsForProbes(a) == agent[a].probes = {}

\* handleValidateRequest starts validateWebsite with the go statement, so
\* the listener goes back to ReadMessage whatever the goroutines do.
ListenerFree(a) == TRUE

\* ReadJSON returns the frames of the connection in the order of their
\* writes: the handshake replies written before task m have been read.
ReadInOrder(a, m) ==
  \A r \in outbox :
    (r.type = "signup" /\ r.conn = m.conn /\ r.x \in m.after)
      => r \in agent[a].got

\* listen, case "validate": handleValidateRequest unmarshals the task and
\* starts a validateWebsite goroutine for it.
AgentRecvTask(a) ==
  /\ Listening(a)
  /\ ListenerFree(a)
  /\ \E m \in outbox \ agent[a].got :
       /\ m.type = "validate"
       /\ m.conn = AgentConn(a)
       /\ ReadInOrder(a, m)
       /\ agent' = [agent EXCEPT
                      ![a].got = @ \cup {m},
                      ![a].probes = @ \cup
                         {Probe(m.cb, m.website, "http", None, 0, None)}]
  /\ UNCHANGED <<hubVars, dbVars, payVars, workVars, wire, faults, invoked,
                 hist>>

\* validateWebsite up to the lock: the GET returns (any error or a status
\* other than 200 is "Bad"), the reply is signed and built with the
\* validatorID of this moment.
AgentProbeChecked(a, pr, h) ==
  /\ pr \in agent[a].probes
  /\ pr.pc = "http"
  /\ agent' = [agent EXCEPT ![a].probes = (@ \ {pr}) \cup
                 {Probe(pr.cb, pr.website, "lock", StatusOf(h),
                        agent[a].validatorID, h)}]
  /\ UNCHANGED <<hubVars, dbVars, payVars, workVars, wire, faults, invoked,
                 hist>>

\* Faulty variant of LockFree: connMu.Lock is not waited for.
LockIgnored(a) == TRUE

\* sync.Mutex: Lock returns only while no goroutine holds the mutex.
LockFree(a) == agent[a].connMu = "free"

\* validateWebsite: v.connMu.Lock() returns.
AgentProbeLock(a, pr) ==
  /\ pr \in agent[a].probes
  /\ pr.pc = "lock"
  /\ LockFree(a)
  /\ agent' = [agent EXCEPT
                 ![a].connMu = "probe",
                 ![a].probes = (@ \ {pr}) \cup {[pr EXCEPT !.pc = "write"]}]
  /\ UNCHANGED <<hubVars, dbVars, payVars, workVars, wire, faults, invoked,
                 hist>>

\* validateWebsite: WriteJSON of the reply; it fails on a connection the
\* hub has closed. connMu.Unlock follows on either path and the goroutine
\* ends.
AgentProbeWrite(a, pr) ==
  /\ pr \in agent[a].probes
  /\ pr.pc = "write"
  /\ wire' = IF hpc[AgentConn(a)].pc = "closed" THEN wire
             ELSE wire \cup {ValidateFrame(a, pr)}
  /\ agent' = [agent EXCEPT ![a].connMu = "free", ![a].probes = @ \ {pr}]
  /\ UNCHANGED <<hubVars, dbVars, payVars, workVars, faults, invoked, hist>>

\* A signup frame on the wire that the hub's receive loop has not read yet.
Unread(f) ==
  /\ f.type = "signup"
  /\ signups[f.conn].x # f.x
  /\ ~(hpc[f.conn].pc = "create" /\ hpc[f.conn].x = f.x)

\* A validate frame on the wire that the hub's receive loop has not read
\* yet: its callback was neither looked up nor run.
UnreadReply(f) ==
  /\ f.type = "validate"
  /\ invoked[f.cb] = 0
  /\ ~(hpc[f.conn].pc = "callback" /\ hpc[f.conn].cb = f.cb)

\* ------------------------------------------------------- specification
Init ==
  /\ validators = [v \in Ids |-> None]
  /\ callbacks = [cb \in CbIds |-> NoClosure]
  /\ nextCb = 0
  /\ hpc = [c \in Conns |-> [Reading EXCEPT !.pc = "new"]]
  /\ dwork = {}
  /\ outbox = {}
  /\ signups = [c \in Conns |-> NoSignup]
  /\ held = [t \in Tasks |-> Outside]
  /\ disabled = [w \in Websites |-> FALSE]
  /\ agent = [a \in Agents |-> NotStarted]
  /\ wire = {}
  /\ dbValidator = <<>>
  /\ ticks = EmptyBag
  /\ payoutTx = <<>>
  /\ rowLock = [v \in Ids |-> None]
  /\ queue = <<>>
  /\ nextMsg = 0
  /\ ppc = [p \in Callers |-> NoRequest(0, None)]
  /\ wpc = Idle
  /\ faults = 0
  /\ stops = 0
  /\ invoked = [cb \in CbIds |-> 0]
  /\ transfers = [m \in MsgIds |-> 0]
  /\ hist = [credited |-> [v \in Ids |-> 0], published |-> [v \in Ids |-> 0],
             requeued |-> {}, compensated |-> {},
             orphaned |-> [v \in Ids |-> 0]]

Next ==
  \/ \E c \in Conns : HubAccept(c)
  \/ \E c \in Conns : HubReadError(c)
  \/ \E c \in Conns : HubReadIgnored(c)
  \/ \E c \in Conns, pk \in Keys, x \in Xs, sigOk \in BOOLEAN :
       HubReadSignup(c, pk, x, sigOk)
  \/ \E c \in Conns : HubSignupCreate(c)
  \/ \E c \in Conns : HubSignupWritten(c)
  \/ \E c \in Conns, cb \in CbIds, vid \in {0} \cup Ids, st \in Statuses,
        sigOk \in BOOLEAN :
       HubReadValidate(c, cb, vid, st, sigOk)
  \/ \E c \in Conns : HubRunCallback(c)
  \/ \E c \in Conns : HubDeleteCallback(c)
  \/ DispatchTick
  \/ DispatchPair
  \/ DispatchSend
  \/ \E u \in Users, w \in Websites : DeleteWebsite(u, w)
  \/ \E p \in Callers, vid \in {0} \cup Ids : PayoutBegin(p, vid)
  \/ \E p \in Callers : PayoutPublish(p)
  \/ \E p \in Callers : PayoutUpdate(p)
  \/ \E p \in Callers : PayoutCommit(p)
  \/ WorkerDeliver
  \/ WorkerCreate
  \/ WorkerTransfer
  \/ WorkerMarkFailed
  \/ WorkerRefund
  \/ WorkerConfirm
  \/ WorkerMarkUnconfirmed
  \/ WorkerMarkCompleted
  \/ WorkerDispose
  \/ WorkerStop
  \/ \E a \in Agents : AgentConnect(a)
  \/ \E a \in Agents : AgentRegister(a)
  \/ \E a \in Agents : AgentSendLock(a)
  \/ \E a \in Agents : AgentSend(a)
  \/ \E a \in Agents : AgentRecvSignup(a)
  \/ \E a \in Agents : AgentRecvGarbled(a)
  \/ \E a \in Agents : AgentRecvTask(a)
  \/ \E a \in Agents, h \in HttpOutcomes :
       \E pr \in agent[a].probes : AgentProbeChecked(a, pr, h)
  \/ \E a \in Agents : \E pr \in agent[a].probes : AgentProbeLock(a, pr)
  \/ \E a \in Agents : \E pr \in agent[a].probes : AgentProbeWrite(a, pr)
  \/ \E t \in Tasks, n \in LoopSections \cup DispatchSections : LockCall(t, n)
  \/ \E t \in Tasks : LockReturn(t)
  \/ \E t \in Tasks : UnlockCall(t)

Spec == Init /\ [][Next]_vars

\* The hub alone: no payout is requested and the worker has nothing to do.
\* Replies carry any callback id and any validator id, on any connection.
NextHub ==
  \/ \E c \in Conns : HubAccept(c)
  \/ \E c \in Conns : HubReadError(c)
  \/ \E c \in Conns : HubReadIgnored(c)
  \/ \E c \in Conns, pk \in Keys : HubReadSignup(c, pk, "x1", TRUE)
  \/ \E c \in Conns : HubSignupCreate(c)
  \/ \E c \in Conns : HubSignupWritten(c)
  \/ \E c \in Conns, cb \in CbIds, vid \in {0} \cup Ids :
       HubReadValidate(c, cb, vid, "Good", TRUE)
  \/ \E c \in Conns : HubRunCallback(c)
  \/ \E c \in Conns : HubDeleteCallback(c)
  \/ DispatchTick
  \/ DispatchPair
  \/ DispatchSend

SpecHub == Init /\ [][NextHub]_vars

\* Probes: both connections are open and each has signed up one validator
\* (reached from Init by HubAccept, HubReadSignup and HubSignupCreate on c1
\* with k1, then on c2 with k2); dispatch cycles run and replies carrying
\* any callback id and validator id arrive on either connection.
InitProbe ==
  /\ validators = [v \in Ids |-> IF v = 1 THEN "c1" ELSE "c2"]
  /\ callbacks = [cb \in CbIds |-> NoClosure]
  /\ nextCb = 0
  /\ hpc = [c \in Conns |-> Reading]
  /\ dwork = {}
  /\ outbox = {}
  /\ signups = [c \in Conns |-> NoSignup]
  /\ held = [t \in Tasks |-> Outside]
  /\ disabled = [w \in Websites |-> FALSE]
  /\ agent = [a \in Agents |-> NotStarted]
  /\ wire = {}
  /\ dbValidator = <<NewValidatorRow("k1"), NewValidatorRow("k2")>>
  /\ ticks = EmptyBag
  /\ payoutTx = <<>>
  /\ rowLock = [v \in Ids |-> None]
  /\ queue = <<>>
  /\ nextMsg = 0
  /\ ppc = [p \in Callers |-> NoRequest(0, None)]
  /\ wpc = Idle
  /\ faults = 0
  /\ stops = 0
  /\ invoked = [cb \in CbIds |-> 0]
  /\ transfers = [m \in MsgIds |-> 0]
  /\ hist = [credited |-> [v \in Ids |-> 0], published |-> [v \in Ids |-> 0],
             requeued |-> {}, compensated |-> {},
             orphaned |-> [v \in Ids |-> 0]]

NextProbe ==
  \/ \E c \in Conns, cb \in CbIds, vid \in {0} \cup Ids :
       HubReadValidate(c, cb, vid, "Good", TRUE)
  \/ \E c \in Conns : HubRunCallback(c)
  \/ \E c \in Conns : HubDeleteCallback(c)
  \/ DispatchTick
  \/ DispatchPair
  \/ DispatchSend

SpecProbe == InitProbe /\ [][NextProbe]_vars

\* The state after connection c1 was accepted and the validator of key k1
\* signed up on it (reached from Init by HubAccept, HubReadSignup and
\* HubSignupCreate), with n probe replies already stored and credited, and
\* with the probe tasks of k dispatch cycles outstanding (DispatchTick,
\* DispatchPair, DispatchSend, k times); ws are the rows of Website, none
\* disabled.
HubSignedUp(n, k, ws) ==
  /\ validators = [v \in Ids |-> IF v = 1 THEN "c1" ELSE None]
  /\ callbacks = [cb \in CbIds |->
                    IF cb <= k THEN [website |-> "w1", publicKey |-> "k1"]
                    ELSE NoClosure]
  /\ nextCb = k
  /\ hpc = [c \in Conns |->
             IF c = "c1" THEN Reading ELSE [Reading EXCEPT !.pc = "new"]]
  /\ dwork = {}
  /\ outbox = {SignupReply("c1", 1, "x1")} \cup
               {[type |-> "validate", conn |-> "c1", vid |-> 0, x |-> None,
                 cb |-> cb, website |-> "w1", after |-> {"x1"}] :
                  cb \in 1..k}
  /\ signups = [c \in Conns |->
                 IF c = "c1" THEN SignupOutcome("k1", "x1", TRUE, 1, TRUE)
                 ELSE NoSignup]
  /\ held = [t \in Tasks |-> Outside]
  /\ disabled = [w \in ws |-> FALSE]
  /\ dbValidator = AddPending(<<NewValidatorRow("k1")>>, 1,
                              n * COST_PER_VALIDATION)
  /\ ticks = IF n = 0 THEN EmptyBag
             ELSE [t \in {[website |-> "w1", validator |-> 1,
                           status |-> "Good"]} |-> n]
  /\ payoutTx = <<>>
  /\ rowLock = [v \in Ids |-> None]
  /\ queue = <<>>
  /\ nextMsg = 0
  /\ ppc = [p \in Callers |-> NoRequest(0, None)]
  /\ wpc = Idle
  /\ faults = 0
  /\ stops = 0
  /\ invoked = [cb \in CbIds |-> 0]
  /\ transfers = [m \in MsgIds |-> 0]
  /\ hist = [credited |-> [v \in Ids |-> IF v = 1 THEN n * COST_PER_VALIDATION
                                         ELSE 0],
             published |-> [v \in Ids |-> 0],
             requeued |-> {}, compensated |-> {},
             orphaned |-> [v \in Ids |-> 0]]

\* The same state with no client process modelled: the peer of c1 is any
\* program that speaks the protocol.
SignedUpProbed(n, k, ws) ==
  /\ HubSignedUp(n, k, ws)
  /\ agent = [a \in Agents |-> NotStarted]
  /\ wire = {}

SignedUp(n) == SignedUpProbed(n, 0, Websites)

\* Payout requests while probes are answered on c1 (no worker consumes).
InitPay == SignedUp(0)

NextPay ==
  \/ \E cb \in CbIds, vid \in {0, 1} :
       HubReadValidate("c1", cb, vid, "Good", TRUE)
  \/ HubRunCallback("c1")
  \/ HubDeleteCallback("c1")
  \/ DispatchTick
  \/ DispatchPair
  \/ DispatchSend
  \/ \E p \in Callers, vid \in {0} \cup Ids : PayoutBegin(p, vid)
  \/ \E p \in Callers : PayoutPublish(p)
  \/ \E p \in Callers : PayoutUpdate(p)
  \/ \E p \in Callers : PayoutCommit(p)

SpecPay == InitPay /\ [][NextPay]_vars

\* Settlement: one probe reply was credited, then payouts are requested
\* one after the other and the worker consumes the queue.
InitWork == SignedUp(1)

NextWork ==
  \/ \E vid \in {0, 1} : PayoutBegin("p1", vid)
  \/ PayoutPublish("p1")
  \/ PayoutUpdate("p1")
  \/ PayoutCommit("p1")
  \/ WorkerDeliver
  \/ WorkerCreate
  \/ WorkerTransfer
  \/ WorkerMarkFailed
  \/ WorkerRefund
  \/ WorkerConfirm
  \/ WorkerMarkUnconfirmed
  \/ WorkerMarkCompleted
  \/ WorkerDispose
  \/ WorkerStop

SpecWork == InitWork /\ [][NextWork]_vars

\* Consumption: validator 1 signed up, one probe reply was credited and
\* one payout request for the balance was committed (PayoutBegin,
\* PayoutPublish, PayoutUpdate, PayoutCommit of p1): its message is on the
\* queue. The worker consumes the queue and may stop; another publisher
\* puts bodies on the queue that are no PayoutRequest.
InitConsume ==
  /\ validators = [v \in Ids |-> IF v = 1 THEN "c1" ELSE None]
  /\ callbacks = [cb \in CbIds |-> NoClosure]
  /\ nextCb = 0
  /\ hpc = [c \in Conns |->
             IF c = "c1" THEN Reading ELSE [Reading EXCEPT !.pc = "new"]]
  /\ dwork = {}
  /\ outbox = {SignupReply("c1", 1, "x1")}
  /\ signups = [c \in Conns |->
                 IF c = "c1" THEN SignupOutcome("k1", "x1", TRUE, 1, TRUE)
                 ELSE NoSignup]
  /\ held = [t \in Tasks |-> Outside]
  /\ disabled = [w \in Websites |-> FALSE]
  /\ dbValidator = <<NewValidatorRow("k1")>>
  /\ ticks = [t \in {[website |-> "w1", validator |-> 1,
                       status |-> "Good"]} |-> 1]
  /\ payoutTx = <<>>
  /\ rowLock = [v \in Ids |-> None]
  /\ queue = <<PayoutMessage(1, COST_PER_VALIDATION, 1)>>
  /\ nextMsg = 1
  /\ ppc = [p \in Callers |->
             IF p = "p1"
             THEN [pc |-> "idle", vid |-> 1, amount |-> COST_PER_VALIDATION,
                   resp |-> "queued", published |-> 1, committed |-> TRUE]
             ELSE NoRequest(0, None)]
  /\ wpc = Idle
  /\ faults = 0
  /\ stops = 0
  /\ invoked = [cb \in CbIds |-> 0]
  /\ transfers = [m \in MsgIds |-> 0]
  /\ hist = [credited |-> [v \in Ids |-> IF v = 1 THEN COST_PER_VALIDATION
                                         ELSE 0],
             published |-> [v \in Ids |-> IF v = 1 THEN COST_PER_VALIDATION
                                          ELSE 0],
             requeued |-> {}, compensated |-> {},
             orphaned |-> [v \in Ids |-> 0]]
  /\ agent = [a \in Agents |-> NotStarted]
  /\ wire = {}

NextConsume ==
  \/ PublishMalformed
  \/ WorkerDeliver
  \/ WorkerCreate
  \/ WorkerTransfer
  \/ WorkerMarkFailed
  \/ WorkerRefund
  \/ WorkerConfirm
  \/ WorkerMarkUnconfirmed
  \/ WorkerMarkCompleted
  \/ WorkerDispose
  \/ WorkerStop

SpecConsume == InitConsume /\ [][NextConsume]_vars

\* The same with the scheduling of the consumer goroutine: each statement
\* of processPayoutRequest returns and the next one is run. The store
\* answers every statement, the RPC calls of executeSolanaTransfer return,
\* and waitForConfirmation returns at finality, at a reported error or when
\* its context of 30 s is done. Nothing is assumed about the delivery of a
\* waiting message, about other publishers or about the worker stopping.
FairConsume ==
  /\ WF_vars(WorkerCreate)
  /\ WF_vars(WorkerTransfer)
  /\ WF_vars(WorkerMarkFailed)
  /\ WF_vars(WorkerRefund)
  /\ WF_vars(WorkerConfirm)
  /\ WF_vars(WorkerMarkUnconfirmed)
  /\ WF_vars(WorkerMarkCompleted)
  /\ WF_vars(WorkerDispose)

SpecConsumeFair == SpecConsume /\ FairConsume

\* Clients: two validator clients connect and sign up; the hub reads the
\* frames they wrote, answers, and dispatches probe tasks to them.
NextAgent ==
  \/ \E c \in Conns : HubAccept(c)
  \/ \E c \in Conns : HubReadError(c)
  \/ \E f \in wire : Unread(f) /\ HubReadSignup(f.conn, f.pk, f.x, f.sigOk)
  \/ \E c \in Conns : HubSignupCreate(c)
  \/ \E c \in Conns : HubSignupWritten(c)
  \/ DispatchTick
  \/ DispatchPair
  \/ DispatchSend
  \/ \E a \in Agents : AgentConnect(a)
  \/ \E a \in Agents : AgentRegister(a)
  \/ \E a \in Agents : AgentSendLock(a)
  \/ \E a \in Agents : AgentSend(a)
  \/ \E a \in Agents : AgentRecvSignup(a)
  \/ \E a \in Agents : AgentRecvGarbled(a)

SpecAgent == Init /\ [][NextAgent]_vars

\* Websites: the validator of key k1 is signed up on c1, user u1 owns two
\* websites; dispatch cycles run while websites are deleted and until the
\* connection is lost.
Sites == {"w1", "w2"}

InitSite == SignedUpProbed(0, 0, Sites)

NextSite ==
  \/ \E u \in Users, w \in Sites : DeleteWebsite(u, w)
  \/ HubReadError("c1")
  \/ DispatchTick
  \/ DispatchPair
  \/ DispatchSend

SpecSite == InitSite /\ [][NextSite]_vars

\* Replies: as SpecProbe, with replies whose signature verifies or not.
NextReply ==
  \/ \E c \in Conns, cb \in CbIds, vid \in {0} \cup Ids, sigOk \in BOOLEAN :
       HubReadValidate(c, cb, vid, "Good", sigOk)
  \/ \E c \in Conns : HubRunCallback(c)
  \/ \E c \in Conns : HubDeleteCallback(c)
  \/ DispatchTick
  \/ DispatchPair
  \/ DispatchSend

SpecReply == InitProbe /\ [][NextReply]_vars

\* Handshakes: the validator of key k1 is signed up on c1 and holds the
\* reward of one probe; signup frames with any key, callback id and
\* signature arrive on both connections, concurrently.
InitSignup == SignedUp(1)

NextSignup ==
  \/ \E c \in Conns : HubAccept(c)
  \/ \E c \in Conns, pk \in Keys, x \in Xs, sigOk \in BOOLEAN :
       HubReadSignup(c, pk, x, sigOk)
  \/ \E c \in Conns : HubSignupCreate(c)
  \/ \E c \in Conns : HubSignupWritten(c)

SpecSignup == InitSignup /\ [][NextSignup]_vars

\* The ledger: one probe was credited and one probe task is outstanding;
\* its reply is credited while payouts are requested one after the other
\* and the worker, which never stops, consumes the queue.
InitLedger == SignedUpProbed(1, 1, Websites)

NextLedger ==
  \/ \E cb \in CbIds : HubReadValidate("c1", cb, 1, "Good", TRUE)
  \/ HubRunCallback("c1")
  \/ HubDeleteCallback("c1")
  \/ PayoutBegin("p1", 1)
  \/ PayoutPublish("p1")
  \/ PayoutUpdate("p1")
  \/ PayoutCommit("p1")
  \/ WorkerDeliver
  \/ WorkerCreate
  \/ WorkerTransfer
  \/ WorkerMarkFailed
  \/ WorkerRefund
  \/ WorkerConfirm
  \/ WorkerMarkUnconfirmed
  \/ WorkerMarkCompleted
  \/ WorkerDispose

SpecLedger == InitLedger /\ [][NextLedger]_vars

\* Registry: connections are accepted and lost; on each any peer signs up,
\* with either public key and any number of times; dispatch cycles run. No
\* reply to a probe task arrives.
NextRegistry ==
  \/ \E c \in Conns : HubAccept(c)
  \/ \E c \in Conns : HubReadError(c)
  \/ \E c \in Conns, pk \in Keys : HubReadSignup(c, pk, "x1", TRUE)
  \/ \E c \in Conns : HubSignupCreate(c)
  \/ \E c \in Conns : HubSignupWritten(c)
  \/ DispatchTick
  \/ DispatchPair
  \/ DispatchSend

SpecRegistry == Init /\ [][NextRegistry]_vars

\* Sessions: the validator of key k1 is signed up on c1, one reply of it was
\* credited and one probe task is outstanding. Connection c2 is accepted,
\* the validator signs up again on either connection, frames the hub drops
\* and replies to the probe task arrive, and connections are lost (no
\* further dispatch cycle starts).
InitSession == SignedUpProbed(1, 1, Websites)

NextSession ==
  \/ HubAccept("c2")
  \/ \E c \in Conns : HubReadError(c)
  \/ \E c \in Conns : HubReadIgnored(c)
  \/ \E c \in Conns : HubReadSignup(c, "k1", "x1", TRUE)
  \/ \E c \in Conns : HubSignupWritten(c)
  \/ \E c \in Conns, cb \in CbIds : HubReadValidate(c, cb, 1, "Good", TRUE)
  \/ \E c \in Conns : HubRunCallback(c)
  \/ \E c \in Conns : HubDeleteCallback(c)

SpecSession == InitSession /\ [][NextSession]_vars

\* One client: the validator client a1 connects to the hub and signs up;
\* the hub reads the frames the client wrote and answers, dispatches probe
\* tasks to it and handles its replies; the connection can be lost at any
\* time.
NextClient ==
  \/ HubAccept("c1")
  \/ HubReadError("c1")
  \/ \E f \in wire : Unread(f) /\ HubReadSignup(f.conn, f.pk, f.x, f.sigOk)
  \/ HubSignupCreate("c1")
  \/ HubSignupWritten("c1")
  \/ \E f \in wire :
       UnreadReply(f) /\ HubReadValidate(f.conn, f.cb, f.vid, f.status, f.sigOk)
  \/ HubRunCallback("c1")
  \/ HubDeleteCallback("c1")
  \/ DispatchTick
  \/ DispatchPair
  \/ DispatchSend
  \/ AgentConnect("a1")
  \/ AgentRegister("a1")
  \/ AgentSendLock("a1")
  \/ AgentSend("a1")
  \/ AgentRecvSignup("a1")
  \/ AgentRecvGarbled("a1")
  \/ AgentRecvTask("a1")
  \/ \E h \in HttpOutcomes :
       \E pr \in agent["a1"].probes : AgentProbeChecked("a1", pr, h)
  \/ \E pr \in agent["a1"].probes : AgentProbeLock("a1", pr)
  \/ \E pr \in agent["a1"].probes : AgentProbeWrite("a1", pr)

SpecClient == Init /\ [][NextClient]_vars

\* The same with the scheduling the Go runtime and the client's bounded GET
\* (http.Client.Timeout of 10 s) give: the dispatch loop goes on from the
\* registration of a handler to the write of its task; the client's
\* listener reads a task that waits, and a validateWebsite goroutine ends
\* its GET, gets connMu and writes; the hub's receive loop reads a reply
\* that waits, runs the handler it found and deletes it. Nothing is
\* assumed about the ticker, the handshake or the loss of the connection.
FairClient ==
  /\ WF_vars(DispatchSend)
  /\ WF_vars(AgentRecvTask("a1"))
  /\ WF_vars(AgentRecvGarbled("a1"))
  /\ WF_vars(\E h \in HttpOutcomes :
               \E pr \in agent["a1"].probes : AgentProbeChecked("a1", pr, h))
  /\ WF_vars(\E pr \in agent["a1"].probes : AgentProbeLock("a1", pr))
  /\ WF_vars(\E pr \in agent["a1"].probes : AgentProbeWrite("a1", pr))
  /\ WF_vars(\E f \in wire :
               UnreadReply(f) /\
               HubReadValidate(f.conn, f.cb, f.vid, f.status, f.sigOk))
  /\ WF_vars(HubRunCallback("c1"))
  /\ WF_vars(HubDeleteCallback("c1"))
  /\ WF_vars(HubSignupWritten("c1"))

SpecClientFair == SpecClient /\ FairClient

\* The client answering tasks: one client on c1 does the handshake, the
\* dispatch loop sends it tasks and its validateWebsite goroutines write
\* the replies; the hub's receive loop reads the signup only.
NextAnswer ==
  \/ HubAccept("c1")
  \/ HubReadError("c1")
  \/ \E f \in wire : Unread(f) /\ HubReadSignup(f.conn, f.pk, f.x, f.sigOk)
  \/ HubSignupCreate("c1")
  \/ HubSignupWritten("c1")
  \/ DispatchTick
  \/ DispatchPair
  \/ DispatchSend
  \/ AgentConnect("a1")
  \/ AgentRegister("a1")
  \/ AgentSendLock("a1")
  \/ AgentSend("a1")
  \/ AgentRecvSignup("a1")
  \/ AgentRecvGarbled("a1")
  \/ AgentRecvTask("a1")
  \/ \E h \in HttpOutcomes :
       \E pr \in agent["a1"].probes : AgentProbeChecked("a1", pr, h)
  \/ \E pr \in agent["a1"].probes : AgentProbeLock("a1", pr)
  \/ \E pr \in agent["a1"].probes : AgentProbeWrite("a1", pr)

SpecAnswer == Init /\ [][NextAnswer]_vars

\* The scheduling of a validateWebsite goroutine: the GET ends (the
\* http.Client has a Timeout of 10 s), connMu is handed to a waiting
\* goroutine, and WriteJSON returns.
FairAnswer ==
  /\ WF_vars(\E h \in HttpOutcomes :
               \E pr \in agent["a1"].probes : AgentProbeChecked("a1", pr, h))
  /\ WF_vars(\E pr \in agent["a1"].probes : AgentProbeLock("a1", pr))
  /\ WF_vars(\E pr \in agent["a1"].probes : AgentProbeWrite("a1", pr))

SpecAnswerFair == SpecAnswer /\ FairAnswer

\* Locks: the hub's goroutines enter and leave the critical sections of
\* Hub.mu and Hub.callbackMu in any order.
NextLocks ==
  \/ \E t \in Tasks, n \in LoopSections \cup DispatchSections : LockCall(t, n)
  \/ \E t \in Tasks : LockReturn(t)
  \/ \E t \in Tasks : UnlockCall(t)

SpecLocks == Init /\ [][NextLocks]_vars

\* --------------------------------------------------------------- claims
\* pending_payouts of a validator id (0 when no row has this id).
Pending(vid) == IF RowExists(vid) THEN dbValidator[vid].pending ELSE 0

\* C1: the handler registered under a correlation id is invoked at most
\* once over the whole run, whatever connections the replies carrying the
\* id arrive on.
C1_HandlerAtMostOnce == \A cb \in CbIds : invoked[cb] <= 1

\* Sum of the amounts of the PayoutTransaction rows of a validator that
\* are in status completed.
CompletedSum(vid) ==
  LET RECURSIVE Sum(_)
      Sum(n) == IF n = 0 THEN 0
                ELSE Sum(n - 1) +
                     (IF /\ payoutTx[n].validator = vid
                         /\ payoutTx[n].status = "completed"
                      THEN payoutTx[n].amount ELSE 0)
  IN Sum(Len(payoutTx))

\* No payout message is queued or with the worker, and no RequestPayout is
\* between its publish and its commit.
Quiescent ==
  /\ queue = <<>>
  /\ wpc.pc = "idle"
  /\ \A p \in Callers : ppc[p].pc = "idle"

\* C2: when a RequestPayout call has ended, it has published a payout
\* message if and only if it committed the reset of pending_payouts.
C2_PublishIffCommit ==
  \A p \in Callers :
    ppc[p].pc = "idle" => ((ppc[p].published # 0) <=> ppc[p].committed)

\* C3: credit conservation: whenever nothing is queued or in progress,
\* reward times the number of Results of a validator equals its pending
\* credit plus the amounts of its completed PayoutTransactions. Stated for
\* the runs in which no store or broker call failed and the worker never
\* stopped, where the claim already fails.
C3_CreditConserved ==
  (Quiescent /\ faults = 0 /\ stops = 0) =>
    \A v \in Ids :
      RowExists(v) =>
        COST_PER_VALIDATION * TickCount(v) = Pending(v) + CompletedSum(v)

\* C4: at most one external transfer is submitted for one payout message,
\* however many times the message is delivered.
C4_OneTransferPerMessage == \A m \in MsgIds : transfers[m] <= 1

\* C5: when the processing of a delivery whose transfer submission failed
\* is about to end (Nack without requeue), its PayoutTransaction is failed
\* and the validator was re-credited exactly the amount of the message.
C5_SubmissionFailureCompensated ==
  (wpc.pc = "nack" /\ wpc.sig = "") =>
    /\ payoutTx[wpc.rec].status = "failed"
    /\ wpc.refunded = wpc.msg.amount

\* C6: when the processing of a delivery whose transfer was confirmed
\* final is about to end (Ack), its PayoutTransaction is completed with a
\* non-empty signature and the worker has not re-credited the validator.
C6_ConfirmedIsCompleted ==
  wpc.pc = "ack" =>
    /\ payoutTx[wpc.rec].status = "completed"
    /\ payoutTx[wpc.rec].sig # ""
    /\ wpc.refunded = 0

\* C7: every step changes the number of Results of a validator id and that
\* validator's credit together: a Result more goes with exactly one reward
\* more on the same validator, and a step that stores no Result credits
\* nothing; a Result never refers to an id that has no validator row.
C7_ResultAndCreditTogether ==
  [][\A v \in {0} \cup Ids :
       /\ TickCount(v)' - TickCount(v) \in {0, 1}
       /\ Pending(v)' - Pending(v) =
            COST_PER_VALIDATION * (TickCount(v)' - TickCount(v))]_vars

\* C7 witness: with no store error injected, a handler ran twice under one
\* id and a single Result with its reward is stored: the other reply named
\* a validator id with no row, and its transaction stored nothing.
C7_Witness ==
  \E cb \in CbIds, v \in Ids :
    /\ faults = 0
    /\ invoked[cb] = 2
    /\ BagCardinality(ticks) = 1
    /\ TickCount(v) = 1
    /\ Pending(v) = COST_PER_VALIDATION

\* C8: as long as no payout message was published for a validator, its
\* pending credit is the reward times the number of its Results.
C8_CreditIsRewardTimesResults ==
  \A v \in Ids :
    (RowExists(v) /\ hist.published[v] = 0) =>
      Pending(v) = COST_PER_VALIDATION * TickCount(v)

\* C8 witness: two Results stored for a validator before any payout
\* request for it.
C8_Witness ==
  \E v \in Ids :
    /\ hist.published[v] = 0
    /\ TickCount(v) = 2
    /\ Pending(v) = 2 * COST_PER_VALIDATION

\* C9: the amounts of the payout messages published for a validator sum to
\* at most the credit it was given (rewards and refunds): no credit is
\* enqueued twice.
C9_EnqueuedWithinCredit ==
  \A v \in Ids : hist.published[v] <= hist.credited[v]

\* A step in which request slot p takes a RequestPayout for a validator
\* row whose pending credit is 0.
BeginsOnZero(p) ==
  /\ ppc[p].pc = "idle"
  /\ ppc'[p] # ppc[p]
  /\ RowExists(ppc'[p].vid)
  /\ Pending(ppc'[p].vid) = 0

\* The step publishes nothing and leaves the store as it is.
NothingWritten == UNCHANGED <<queue, nextMsg, dbVars>>

\* C10: RequestPayout for a validator whose pending credit is 0 publishes
\* nothing and leaves the store unchanged, and it answers "cleared"; the
\* only other answer is the 500 of a locked read that itself returned a
\* store error, before any balance was seen.
C10_ZeroBalanceCleared ==
  [][\A p \in Callers :
       BeginsOnZero(p) =>
         /\ ppc'[p].pc = "idle"
         /\ \/ ppc'[p].resp = "cleared"
            \/ ppc'[p].resp = "error" /\ faults' = faults + 1
         /\ NothingWritten]_vars

\* C10 witness: a request answered "cleared" for a validator whose credit
\* an earlier request had enqueued and reset.
C10_Witness ==
  \E p \in Callers :
    /\ ppc[p].pc = "idle"
    /\ ppc[p].resp = "cleared"
    /\ RowExists(ppc[p].vid)
    /\ Pending(ppc[p].vid) = 0
    /\ hist.published[ppc[p].vid] > 0

\* C11: when the worker is about to remove a message from the queue (Ack,
\* or Nack without requeue), the message has a PayoutTransaction and that
\* record is in a terminal status, completed or failed.
C11_TerminalRecordOnDisposal ==
  wpc.pc \in {"ack", "nack"} =>
    /\ wpc.rec \in 1..Len(payoutTx)
    /\ payoutTx[wpc.rec].status \in {"completed", "failed"}

\* C12: the pending credit of every validator is never negative.
C12_CreditNeverNegative == \A v \in Ids : Pending(v) >= 0

\* C12 witness: the worker has re-credited the amount of a payout message
\* (after the request's reset) and a probe reward was credited in between,
\* so the balance holds the refund and the reward.
C12_Witness ==
  /\ wpc.pc = "nack"
  /\ wpc.refunded > 0
  /\ Pending(wpc.msg.validator) = wpc.refunded + COST_PER_VALIDATION

\* A step in which the hub finishes handling a handshake on connection c
\* whose public key has a Validator row.
HandshakeOnKnownKey(c) ==
  /\ signups'[c] # signups[c]
  /\ hpc[c].pc = "read"
  /\ FindByKey(signups'[c].pk) # {}

\* C13: no public key ever has more than one Validator row, and a handshake
\* whose key already has a row is registered under that row's id and
\* answered with it, no row being added or changed (pending_payouts
\* included); the only other outcome is the return on a store error of the
\* lookup, which changes no row either.
C13_OneIdentityPerKey ==
  /\ [](\A pk \in Keys : Cardinality(FindByKey(pk)) <= 1)
  /\ [][\A c \in Conns :
          HandshakeOnKnownKey(c) =>
            /\ dbValidator' = dbValidator
            /\ \/ /\ signups'[c].vid \in FindByKey(signups'[c].pk)
                  /\ SignupReply(c, signups'[c].vid, signups'[c].x) \in outbox'
               \/ /\ signups'[c].vid = 0
                  /\ faults' = faults + 1]_vars

\* C13 witness: with no store error, two connections have handshaken
\* concurrently with the unseen key k2 (one created the row, the other's
\* insert was refused), k1 was used again on a connection, and there is one
\* row per key with the reward of k1 untouched.
C13_Witness ==
  /\ faults = 0
  /\ \E c, d \in Conns :
       /\ signups[c].pk = "k2" /\ signups[c].vid = 2
       /\ signups[d].pk = "k2" /\ signups[d].vid = 0
  /\ SignupReply("c1", 1, "x2") \in outbox
  /\ Pending(1) = COST_PER_VALIDATION

\* C14: every handshake the hub has handled was registered under the
\* identity of its public key and answered on its connection with that
\* identity's id and the callback id of the frame. Stated for the runs in
\* which no store call failed, where the claim already fails.
C14_SignupRegisteredAndAnswered ==
  faults = 0 =>
    \A c \in Conns :
      signups[c] # NoSignup =>
        /\ signups[c].vid \in FindByKey(signups[c].pk)
        /\ signups[c].replied
        /\ SignupReply(c, signups[c].vid, signups[c].x) \in outbox

\* C15: a handshake whose signature does not verify is rejected: the
\* connection is not registered for it and no reply is written.
C15_UnverifiedSignupRejected ==
  \A c \in Conns :
    (signups[c] # NoSignup /\ ~signups[c].sigOk) =>
      /\ signups[c].vid = 0
      /\ ~signups[c].replied

\* A step in which the receive loop of connection c runs the handler it
\* found for a reply.
RunsHandler(c) == hpc[c].pc = "callback" /\ hpc'[c].pc = "delete"

\* C16: a Result is stored and a reward credited only by the handling of a
\* reply whose signature verifies against the public key of the validator
\* the probe was sent to.
C16_OnlyVerifiedRepliesCredited ==
  [][(ticks' # ticks \/ dbValidator' # dbValidator) =>
       \E c \in Conns : RunsHandler(c) /\ hpc[c].sigOk]_vars

\* C18: the Result a handler stores and the credit it adds go to the
\* validator the probe task was sent to (the one whose public key the
\* handler was created with), whatever validator id the reply carries.
C18_CreditGoesToProbedValidator ==
  [][\A c \in Conns :
       RunsHandler(c) =>
         \A v \in {0} \cup Ids :
           (TickCount(v)' # TickCount(v) \/ Pending(v)' # Pending(v)) =>
             /\ RowExists(v)
             /\ dbValidator[v].publicKey = hpc[c].closure.publicKey]_vars

\* C19: a callback id whose reply has been handled is no longer in
\* Hub.callbacks, and the Results, the credits and the registry change only
\* by the handling of a reply whose callback id is in Hub.callbacks: a
\* reply for an id that is not registered, or that an earlier reply has
\* consumed, changes nothing.
C19_ConsumedIdIsInert ==
  /\ [](\A cb \in CbIds :
          (/\ invoked[cb] >= 1
           /\ \A c \in Conns : ~(hpc[c].pc \in {"callback", "delete"} /\
                                 hpc[c].cb = cb))
            => callbacks[cb] = NoClosure)
  /\ [][(ticks' # ticks \/ dbValidator' # dbValidator \/
         validators' # validators) =>
          \E c \in Conns :
            RunsHandler(c) /\ callbacks[hpc[c].cb] # NoClosure]_vars

\* C17: a dispatch cycle works only on the websites that were not disabled
\* when it started: the pairs of a starting cycle name no website that
\* DeleteWebsite has disabled, and a handler is registered or a probe task
\* written only for a pair of the running cycle.
C17_DeletedWebsiteNotDispatched ==
  [][/\ (dwork = {} /\ dwork' # {}) =>
          \A p \in dwork' : ~disabled[p.website]
     /\ \A cb \in CbIds :
          (callbacks'[cb] # callbacks[cb] /\ callbacks'[cb] # NoClosure) =>
            \E p \in dwork : p.website = callbacks'[cb].website
     /\ \A m \in outbox' \ outbox :
          m.type = "validate" => \E p \in dwork : p.website = m.website]_vars

\* C17 witness: w1 is disabled and a whole cycle has run that registered a
\* handler and wrote a task for w2 only, so it started after the deletion.
C17_Witness ==
  /\ disabled["w1"]
  /\ dwork = {}
  /\ nextCb = 1
  /\ callbacks[1].website = "w2"
  /\ \E m \in outbox : m.type = "validate" /\ m.website = "w2"

\* C20: a request is written only after its handler is registered under
\* its callback id. Hub: the callback id of every probe task written is in
\* Hub.callbacks. Client: the callback id of every signup frame written is
\* in the client's callbacks map, or the reply carrying it has been read
\* and has consumed it; and every signup reply on a client's connection
\* carries an id that client registered.
C20_RegisteredBeforeSent ==
  /\ \A m \in outbox : m.type = "validate" => callbacks[m.cb] # NoClosure
  /\ \A a \in Agents :
       /\ \A f \in wire :
            f.conn = AgentConn(a) =>
              \/ f.x \in agent[a].callbacks
              \/ \E m \in agent[a].got : m.x = f.x
       /\ \A m \in outbox :
            (m.type = "signup" /\ m.conn = AgentConn(a)) =>
              \/ m.x \in agent[a].callbacks
              \/ m \in agent[a].got

\* C20 witness: a client has read its signup reply, whose handler was found
\* and consumed, and the hub has written a probe task on that client's
\* connection under a registered callback id.
C20_Witness ==
  \E a \in Agents :
    /\ agent[a].validatorID # 0
    /\ agent[a].callbacks = {}
    /\ \E m \in outbox :
         m.type = "validate" /\ m.conn = AgentConn(a) /\
         callbacks[m.cb] # NoClosure

\* The active websites and the connected validators a dispatch cycle that
\* starts now would work on.
ActiveNow == {w \in DOMAIN disabled : ~disabled[w]}
ConnectedNow == {v \in Ids : validators[v] # None}

\* C21: a dispatch cycle that starts with active websites A and connected
\* validators S works on exactly one pair for every (website, validator) of
\* A x S; for every pair it registers exactly one handler, under a callback
\* id never used before, and then attempts one write of the probe task of
\* that pair. No callback id is shared by two pairs or two tasks. A cycle
\* that finds A or S empty registers and writes nothing.
C21_OneHandlerAndTaskPerPair ==
  /\ [](/\ \A p, q \in dwork : (p.cb # 0 /\ p.cb = q.cb) => p = q
        /\ \A m, n \in outbox :
             (m.type = "validate" /\ n.type = "validate" /\ m.cb = n.cb)
               => m = n
        /\ \A p \in dwork : \A m \in outbox :
             m.type = "validate" => m.cb # p.cb)
  /\ [][/\ (dwork = {} /\ dwork' # {}) =>
             /\ \A w \in ActiveNow, v \in ConnectedNow :
                  Cardinality({p \in dwork' :
                                 p.website = w /\ p.vid = v}) = 1
             /\ \A p \in dwork' :
                  /\ p.website \in ActiveNow
                  /\ p.vid \in ConnectedNow
                  /\ p.conn = validators[p.vid]
                  /\ p.cb = 0
        /\ (dwork = {} /\ (ActiveNow = {} \/ ConnectedNow = {})) =>
             /\ dwork' = {}
             /\ callbacks' = callbacks
             /\ outbox' = outbox
        /\ \A cb \in CbIds :
             (callbacks'[cb] # callbacks[cb] /\ callbacks'[cb] # NoClosure) =>
               /\ cb > nextCb
               /\ nextCb' = cb
               /\ callbacks[cb] = NoClosure
               /\ invoked[cb] = 0
               /\ \A d \in CbIds \ {cb} : callbacks'[d] = callbacks[d]
               /\ \E p \in dwork :
                    /\ p.cb = 0
                    /\ callbacks'[cb].website = p.website
                    /\ dwork' = (dwork \ {p}) \cup {[p EXCEPT !.cb = cb]}
        /\ (dwork # {} /\ dwork' # dwork /\ callbacks' = callbacks) =>
             \E p \in dwork :
               /\ p.cb # 0
               /\ dwork' = dwork \ {p}
               /\ outbox' \subseteq outbox \cup {ProbeTask(p)}
               /\ hpc[p.conn].pc # "closed" => ProbeTask(p) \in outbox'
        /\ \A m \in outbox' \ outbox :
             m.type = "validate" =>
               \E p \in dwork \ dwork' : m = ProbeTask(p)]_vars

\* C21 witness: one cycle over two active websites and one connected
\* validator has ended; two handlers are registered under different ids,
\* one per website, and the two tasks were written under those ids.
C21_Witness ==
  /\ dwork = {}
  /\ nextCb = 2
  /\ callbacks[1] # NoClosure /\ callbacks[2] # NoClosure
  /\ callbacks[1].website # callbacks[2].website
  /\ \A cb \in {1, 2} :
       \E m \in outbox :
         m.type = "validate" /\ m.cb = cb /\ m.website = callbacks[cb].website

\* C22: once the receive loop of a connection has ended on a read failure,
\* no registry entry refers to that connection (also when it handshook
\* under more than one public key), and a dispatch cycle that starts
\* afterwards has no pair on it.
C22_ClosedConnectionUnregistered ==
  /\ [](\A c \in Conns : hpc[c].pc = "closed" => EntriesOf(c) = {})
  /\ [][(dwork = {} /\ dwork' # {}) =>
          \A p \in dwork' : hpc[p.conn].pc # "closed"]_vars

\* A step in which the receive loop of connection c registers a handshake
\* (handleSignup reaches the write of the reply), and one in which it ends
\* on a read failure.
RegistersHandshake(c) == hpc[c].pc # "reply" /\ hpc'[c].pc = "reply"
EndsOnReadFailure(c) == hpc[c].pc # "closed" /\ hpc'[c].pc = "closed"

\* C23: the registry holds one connection per identity, that of the most
\* recent handshake for it: a handshake for identity V on connection c sets
\* the entry of V to c, whatever it was; an entry changes only by a
\* handshake for its identity or by the read failure of the connection it
\* refers to; so a read failure on the connection V used before leaves the
\* entry of V alone.
C23_LatestHandshakeWins ==
  [][/\ \A c \in Conns :
          RegistersHandshake(c) => validators'[hpc'[c].vid] = c
     /\ \A c \in Conns :
          EndsOnReadFailure(c) =>
            \A v \in Ids : validators[v] # c => validators'[v] = validators[v]
     /\ \A v \in Ids :
          validators'[v] # validators[v] =>
            \/ \E c \in Conns :
                 RegistersHandshake(c) /\ hpc'[c].vid = v /\ validators'[v] = c
            \/ \E c \in Conns :
                 /\ EndsOnReadFailure(c)
                 /\ validators[v] = c
                 /\ validators'[v] = None]_vars

\* C23 witness: identity 1 handshook on c1 and later on c2; then c1 was lost
\* and its removeValidator found no entry to remove (so the entry already
\* referred to c2); the entry of identity 1 still refers to c2, which is
\* open.
C23_Witness ==
  /\ signups["c1"].vid = 1
  /\ signups["c2"].vid = 1
  /\ hpc["c1"].pc = "closed"
  /\ hpc["c1"].vid = 0
  /\ hpc["c2"].pc = "read"
  /\ validators[1] = "c2"

\* C24: the loss of a connection leaves Hub.callbacks as it is: the step
\* that ends a receive loop on a read failure changes no handler and runs
\* none, and a registered handler leaves the table only in the delete that
\* ends the handling of a reply carrying its id.
C24_DisconnectKeepsHandlers ==
  [][/\ \A c \in Conns :
          EndsOnReadFailure(c) =>
            (callbacks' = callbacks /\ invoked' = invoked)
     /\ \A cb \in CbIds :
          (callbacks[cb] # NoClosure /\ callbacks'[cb] = NoClosure) =>
            \E c \in Conns :
              /\ hpc[c].pc = "delete"
              /\ hpc[c].cb = cb
              /\ hpc'[c].pc = "read"]_vars

\* C24 witness: connection c1 was lost while the handler of the task sent
\* on it was registered and unanswered; the handler is still registered.
C24_Witness ==
  /\ hpc["c1"].pc = "closed"
  /\ hpc["c1"].vid = 1
  /\ \E m \in outbox :
       /\ m.type = "validate"
       /\ m.conn = "c1"
       /\ callbacks[m.cb] # NoClosure
       /\ invoked[m.cb] = 0

\* The goroutines of client a that are between connMu.Lock and
\* connMu.Unlock, so inside WriteJSON on the hub connection: signup, and
\* the validateWebsite goroutines (named by the callback id of their task).
Writers(a) ==
  (IF agent[a].pc = "sending" THEN {[kind |-> "signup", cb |-> 0]} ELSE {})
    \cup {[kind |-> "probe", cb |-> pr.cb] :
            pr \in {q \in agent[a].probes : q.pc = "write"}}

\* C29: on a client at most one goroutine is writing on the hub connection
\* at any time, and connMu is held exactly while one is: it is free again
\* after the write of the signup frame and of every reply, whether the
\* write succeeded or failed.
C29_AgentWritesSerialized ==
  /\ [](\A a \in Agents :
          /\ Cardinality(Writers(a)) <= 1
          /\ agent[a].connMu = "free" <=> Writers(a) = {}
          /\ \A w \in Writers(a) : agent[a].connMu = w.kind)
  /\ [][\A a \in Agents :
          \A w \in Writers(a) :
            w \notin Writers(a)' => agent'[a].connMu = "free"]_vars

\* C29 witness: two probes of one client had finished their GET and were
\* waiting for connMu together; the write of one failed on the closed
\* connection (nothing reached the wire), the lock was released and the
\* other goroutine is writing now.
C29_Witness ==
  /\ hpc["c1"].pc = "closed"
  /\ Cardinality(agent["a1"].got) = 3
  /\ Cardinality(agent["a1"].probes) = 1
  /\ \A f \in wire : f.type = "signup"
  /\ \E pr \in agent["a1"].probes : pr.pc = "write"

\* The probe tasks written on the connection of client a that its listener
\* has not read yet and that no unread handshake reply precedes.
TasksWaiting(a) ==
  {m \in outbox \ agent[a].got :
     m.type = "validate" /\ m.conn = AgentConn(a) /\ ReadInOrder(a, m)}

\* C30: the listener of a client is never blocked by a probe: whenever a
\* probe task is the next frame on the connection of a client whose
\* listener runs, the listener can read it and start its probe, whatever
\* the probes already started are doing.
C30_ListenerNeverBlocked ==
  \A a \in Agents :
    (Listening(a) /\ TasksWaiting(a) # {}) => ENABLED AgentRecvTask(a)

\* C30 witness: two probes of one client are in their GET at the same time.
C30_Witness ==
  \E a \in Agents :
    \E p, q \in agent[a].probes : p # q /\ p.pc = "http" /\ q.pc = "http"

\* A step in which the receive loop of connection c drops the frame it read
\* (malformed JSON or a type other than "signup" and "validate").
DropsFrame(c) == hpc[c].pc = "read" /\ ~hpc[c].skipped /\ hpc'[c].skipped

\* C28: a malformed frame or a frame of unknown type changes neither the
\* registry, nor Hub.callbacks, nor the ledger (Validator rows, WebsiteTicks,
\* payout records), writes nothing and runs no handler; the connection
\* stays open: the loop is in ReadMessage again and can handle the next
\* frame, be it a signup or a reply.
C28_BadFrameIgnored ==
  /\ [](\A c \in Conns :
          hpc[c].skipped =>
            /\ hpc[c].pc = "read"
            /\ ENABLED HubReadSignup(c, "k1", "x1", TRUE)
            /\ ENABLED HubReadValidate(c, 1, 1, "Good", TRUE))
  /\ [][\A c \in Conns :
          DropsFrame(c) =>
            /\ validators' = validators
            /\ callbacks' = callbacks
            /\ dbValidator' = dbValidator
            /\ ticks' = ticks
            /\ payoutTx' = payoutTx
            /\ outbox' = outbox
            /\ invoked' = invoked
            /\ signups' = signups]_vars

\* C28 witness: the loop of c1 has just dropped a frame; the validator is
\* still registered on c1, the handler of its outstanding task is still in
\* Hub.callbacks and its credit and tick are as before.
C28_Witness ==
  /\ hpc["c1"].skipped
  /\ validators[1] = "c1"
  /\ callbacks[1] # NoClosure
  /\ Pending(1) = COST_PER_VALIDATION
  /\ TickCount(1) = 1

\* The hub tasks that are inside conn.WriteJSON on connection c: its receive
\* loop writing a handshake reply, and the dispatch loop writing the probe
\* task of the pair it has just registered a handler for. Neither call is
\* made under a lock.
HubWriters(c) ==
  (IF hpc[c].pc = "reply" THEN {"receive loop"} ELSE {})
    \cup (IF DispatchWriting(c) THEN {"dispatch loop"} ELSE {})

\* C26: at no time are two hub tasks writing on the same connection.
C26_HubWritesSerialized ==
  \A c \in Conns : Cardinality(HubWriters(c)) <= 1

\* The tasks that are inside a critical section working on table tb.
Inside(tb) ==
  {t \in Tasks : held[t].phase = "in" /\ TableOf(held[t].section) = tb}

\* C27: at no time does one task change the registry or Hub.callbacks while
\* another task changes or reads the same table; sections that overlap on
\* a table are lookups only.
C27_TableMutationsExclusive ==
  \A tb \in {"validators", "callbacks"} :
    \A t, u \in Inside(tb) :
      t # u => (~Mutates(held[t].section) /\ ~Mutates(held[u].section))

\* C27 witness: the receive loops of both connections are inside the lookup
\* of handleValidate at the same time, while the dispatch loop waits for
\* callbackMu to register a handler and a removeValidator is yet to come.
C27_Witness ==
  /\ held["c1"] = [section |-> "lookup", phase |-> "in"]
  /\ held["c2"] = [section |-> "lookup", phase |-> "in"]
  /\ held["dispatch"] = [section |-> "callback", phase |-> "wait"]
  /\ ~Grantable("dispatch")

\* The handler under callback id cb was abandoned: no registry entry is
\* left for the validator whose public key it was created with.
Abandoned(cb) ==
  \A v \in FindByKey(callbacks[cb].publicKey) : validators[v] = None

\* C25: every handler the dispatch loop registers is eventually run by a
\* reply, or its validator's connection is removed from the registry: no
\* handler stays registered forever while its validator stays connected
\* (under the scheduling of FairClient).
C25_HandlerInvokedOrAbandoned ==
  \A cb \in CbIds :
    (callbacks[cb] # NoClosure) ~> (invoked[cb] >= 1 \/ Abandoned(cb))

\* The replies of client a to the task with callback id cb that are on the
\* wire.
Replies(a, cb) ==
  {f \in wire : f.type = "validate" /\ f.conn = AgentConn(a) /\ f.cb = cb}

\* The validateWebsite goroutines of client a that work on callback id cb.
ProbesOf(a, cb) == {pr \in agent[a].probes : pr.cb = cb}

\* C31: every task the client's listener received is answered with one
\* reply unless the hub has closed the connection; never two replies go out
\* for one task; a reply carries the callbackId and the websiteId of a
\* received task; and its status is "Good" exactly when the GET ended with
\* status 200 and no error, "Bad" otherwise.
C31_OneReplyPerTask ==
  /\ \A cb \in CbIds :
       (ProbesOf("a1", cb) # {}) ~>
         (Replies("a1", cb) # {} \/ hpc["c1"].pc = "closed")
  /\ [](\A cb \in CbIds :
          /\ Cardinality(Replies("a1", cb)) <= 1
          /\ Cardinality(ProbesOf("a1", cb)) <= 1
          /\ Replies("a1", cb) # {} => ProbesOf("a1", cb) = {})
  /\ [](\A f \in wire :
          f.type = "validate" =>
            \E m \in agent["a1"].got :
              m.type = "validate" /\ m.cb = f.cb /\ m.website = f.website)
  /\ [][\A pr \in agent["a1"].probes :
          AgentProbeWrite("a1", pr) =>
            /\ pr.status = (IF pr.http = "200" THEN "Good" ELSE "Bad")
            /\ hpc["c1"].pc # "closed" =>
                 \E f \in wire' \ wire :
                   f.cb = pr.cb /\ f.website = pr.website /\
                   f.status = pr.status]_vars

\* C31 witness: a reply with status "Bad" to a received task is on the wire
\* of an open connection.
C31_Witness ==
  \E f \in wire :
    /\ f.type = "validate"
    /\ f.status = "Bad"
    /\ f.website = "w1"
    /\ hpc["c1"].pc # "closed"
    /\ \E m \in agent["a1"].got : m.type = "validate" /\ m.cb = f.cb

\* C32: every probe reply a client sends carries the validator id the hub
\* assigned in the handshake reply, never the unset id.
C32_ReplyCarriesValidatorId ==
  \A f \in wire : f.type = "validate" => f.vid # 0

\* A step in which the worker asks the broker to deliver its message again
\* (Nack with requeue): the message is back at the head of the queue and
\* the worker did not stop.
Requeues ==
  /\ wpc.pc # "idle"
  /\ stops' = stops
  /\ queue' = <<wpc.msg>> \o queue

\* C33: the worker asks for redelivery only when creating the record
\* failed, nothing having been submitted or re-credited for the delivery; a
\* rejection after the transfer step leaves the queue as it is, and a body
\* that does not unmarshal is rejected without requeue and without a
\* record.
C33_RequeueOnlyWhenCreateFailed ==
  [][/\ Requeues =>
          /\ wpc.pc = "create"
          /\ wpc.sig = "" /\ wpc.refunded = 0
          /\ payoutTx' = payoutTx
          /\ transfers' = transfers
          /\ dbValidator' = dbValidator
     /\ (wpc.pc = "nack" /\ wpc'.pc = "idle" /\ stops' = stops) =>
          queue' = queue
     /\ (wpc.pc = "idle" /\ wpc'.pc # "idle" /\ ~wpc'.msg.json) =>
          wpc'.pc = "nack" /\ payoutTx' = payoutTx]_vars

\* C33 witness: the worker asked for the redelivery of a request, and a
\* body that does not unmarshal is being rejected.
C33_Witness ==
  /\ wpc.pc = "nack"
  /\ ~wpc.msg.json
  /\ hist.requeued # {}
  /\ stops = 0

\* C34: when the transfer was submitted and the confirmation ended with a
\* timeout or an on-chain error, the delivery is rejected with its record
\* failed and carrying the signature, and without re-crediting the balance.
C34_UnconfirmedIsFailedUncompensated ==
  (wpc.pc = "nack" /\ wpc.chain \in {"failed", "timeout"}) =>
    /\ payoutTx[wpc.rec].status = "failed"
    /\ payoutTx[wpc.rec].sig = wpc.sig
    /\ wpc.sig # ""
    /\ wpc.refunded = 0

\* The amounts of the PayoutTransactions of validator vid that are failed
\* for a submission failure (no signature).
FailedUnsubmitted(vid) ==
  LET RECURSIVE Sum(_)
      Sum(n) == IF n = 0 THEN 0
                ELSE Sum(n - 1) +
                     (IF /\ payoutTx[n].validator = vid
                         /\ payoutTx[n].status = "failed"
                         /\ payoutTx[n].sig = ""
                      THEN payoutTx[n].amount ELSE 0)
  IN Sum(Len(payoutTx))

\* What the worker has added to pending_payouts of validator vid: all that
\* was credited less the rewards of its stored ticks.
Recredited(vid) == hist.credited[vid] - COST_PER_VALIDATION * TickCount(vid)

\* C35: marking a record failed for a submission failure and re-crediting
\* its amount are one unit: in every state the amounts of the records
\* failed for a submission failure are exactly what the worker re-credited.
C35_CompensateAndMarkFailedAtomic ==
  \A v \in Ids : FailedUnsubmitted(v) = Recredited(v)

\* C36: every PayoutTransaction is created in status processing; a step
\* keeps every row (none is deleted), changes the status of a row only from
\* processing and only to completed or failed, and leaves a row in a
\* terminal status as it is.
C36_RecordStatusChangesOnce ==
  [][/\ Len(payoutTx') >= Len(payoutTx)
     /\ \A i \in 1..Len(payoutTx') :
          IF i > Len(payoutTx)
          THEN payoutTx'[i].status = "processing"
          ELSE /\ payoutTx'[i].status # payoutTx[i].status =>
                    /\ payoutTx[i].status = "processing"
                    /\ payoutTx'[i].status \in {"completed", "failed"}
               /\ payoutTx[i].status \in {"completed", "failed"} =>
                    payoutTx'[i] = payoutTx[i]
               /\ payoutTx'[i].validator = payoutTx[i].validator
               /\ payoutTx'[i].amount = payoutTx[i].amount]_vars

\* C36 witness: one record is completed and a later one is failed, each
\* written once by its own delivery.
C36_Witness ==
  \E i, j \in 1..Len(payoutTx) :
    /\ i < j
    /\ payoutTx[i].status \in {"completed", "failed"}
    /\ payoutTx[j].status \in {"completed", "failed"}
    /\ payoutTx[i].status # payoutTx[j].status

\* A step in which the worker takes the next delivery from the broker.
StartsDelivery ==
  /\ queue # <<>>
  /\ queue' = Tail(queue)
  /\ wpc'.msg = Head(queue)
  /\ wpc'.pc # "idle"

\* C37: the worker has at most one message in flight: it takes a delivery
\* only when no delivery is being processed, and every new record and every
\* submitted transfer belongs to the one delivery being processed.
C37_OneMessageInFlight ==
  [][/\ StartsDelivery => wpc = Idle
     /\ Len(payoutTx') > Len(payoutTx) =>
          /\ wpc.pc = "create"
          /\ Len(payoutTx') = Len(payoutTx) + 1
          /\ payoutTx'[Len(payoutTx')].msg = wpc.msg.id
     /\ transfers' # transfers =>
          /\ wpc.pc = "transfer"
          /\ transfers' = [transfers EXCEPT ![wpc.msg.id] = @ + 1]]_vars

\* C37 witness: a delivery is at its transfer, after an earlier delivery
\* of the message was rejected with requeue, while another message waits on
\* the queue.
C37_Witness ==
  /\ wpc.pc = "transfer"
  /\ hist.requeued # {}
  /\ queue # <<>>

\* A step that ends the processing of a delivery without the worker
\* stopping: processPayoutRequest returns.
EndsDelivery == wpc.pc # "idle" /\ wpc'.pc = "idle" /\ stops' = stops

\* delivery.Ack(false): the message leaves the queue.
Acks == wpc.pc = "ack" /\ queue' = queue

\* delivery.Nack(false, false): the message leaves the queue.
Rejects == wpc.pc = "nack" /\ queue' = queue

\* C38: the processing of every delivery ends (the worker is idle again),
\* the confirmation polling ends with one of its three outcomes, and the
\* processing of a delivery ends with exactly one of Ack, Nack without
\* requeue and Nack with requeue.
C38_DeliveryEndsWithOneDisposition ==
  /\ (wpc.pc # "idle") ~> (wpc.pc = "idle")
  /\ (wpc.pc = "confirm") ~>
       (wpc.pc = "idle" \/ wpc.chain \in {"finalized", "failed", "timeout"})
  /\ [][EndsDelivery =>
          \/ Acks /\ ~Rejects /\ ~Requeues
          \/ ~Acks /\ Rejects /\ ~Requeues
          \/ ~Acks /\ ~Rejects /\ Requeues]_vars

\* C38 witness: with no stop of the worker, the request was processed to a
\* record and its delivery has ended; the queue is empty.
C38_Witness ==
  /\ wpc = Idle
  /\ queue = <<>>
  /\ payoutTx # <<>>
  /\ stops = 0

\* C39: for no payout message is the amount both transferred and
\* re-credited to the validator.
C39_NeverAppliedAndRecredited ==
  \A m \in MsgIds : ~(m \in hist.compensated /\ transfers[m] >= 1)

\* The amount request slots have published for validator vid and not yet
\* reset: the requests between Publish and Commit.
InRequest(vid) ==
  LET ps == {p \in Callers : ppc[p].pc \in {"update", "commit"} /\
                             ppc[p].vid = vid}
  IN IF ps = {} THEN 0 ELSE ppc[CHOOSE p \in ps : TRUE].amount

====
